---- MODULE Spec2Model ----
(***************************************************************************)
(* Model of the trstdly scraper: the bulk-prefetch coordinator             *)
(* (paralel_scrape_check_duplicate.py), the scraper it drives              *)
(* (kevin/scrape copy.py: fetch_page, _save_to_db, compress_image_url,     *)
(* _extract_raw_content) and the PostgreSQL table scraped_articles.        *)
(*                                                                         *)
(* Strings whose characters matter (URLs, API response bodies) are         *)
(* sequences of one-character strings, so that TRIM, strip and startswith  *)
(* are computed and not assumed.                                           *)
(***************************************************************************)
EXTENDS Integers, Sequences, FiniteSets, TLC

VARIABLES
    \* ---- the run of main() and the table ----
    all_urls,           \* the imported input list `urls`
    table_exists,       \* whether scraped_articles exists in the database
    rows,               \* the rows of scraped_articles
    id_seq,             \* next value of the SERIAL sequence of column id
    pc,                 \* position of main()
    existing_urls_set,  \* the result of get_existing_urls
    urls_to_scrape,     \* the filtered list
    skipped_count,
    submitted,          \* number of executor.submit calls made so far
    task,               \* one record per submitted-or-to-be-submitted future
    collected,          \* futures already yielded by as_completed
    results,            \* the dict results: url -> status
    success_count,
    failed_count,
    \* ---- history variables (not program state) ----
    n_select,           \* number of SELECT ... url queries sent to the Store
    last_write,         \* url -> {the record of the last committed upsert}
    ext_writes,         \* upserts committed by the other writer so far
    \* ---- one call of _extract_raw_content, image part ----
    img_pc,             \* position inside _extract_raw_content
    body,               \* children of content_body, in document order
    img_idx,            \* loop position of `for img_tag in find_all('img')`
    api_calls,          \* the image URLs passed to compress_image_url, in order
    api_resp,           \* the API answer each image got (history)
    body0,              \* body as it was before the image loop (history)
    content_html,       \* the lines built by the 'Build content HTML' loop
    \* ---- one call of scrape_article, fetch part ----
    f_pc,               \* position inside scrape_article / fetch_page
    f_url,              \* the url argument
    f_calls,            \* calls of fetch_page made by this scrape_article
    f_attempt,          \* the loop variable `attempt`
    f_log,              \* how each attempt made so far ended (history)
    f_slept,            \* the time.sleep arguments so far, in order (history)
    \* ---- the Normalizer: _extract_raw_content, _post_process_content ----
    nm_pc,              \* position inside the Normalizer
    nm_run,             \* 1: the page's container, 2: the Normalizer's own output
    article_container,  \* the children of the container this run started from
    content_copy,       \* the tree being rewritten in place
    figures,            \* the list content_copy.find_all('figure')
    fig_i,              \* the loop variable `i` of enumerate(figures)
    rewrites,           \* <<src sent, answer>> of each compress_image_url call
    content,            \* article_data['content'], as lines
    clean_content,      \* the result of _post_process_content, as lines
    first_output,       \* clean_content of run 1 (history)
    \* ---- the Renderer: create_clean_html_for_file and scrape_article ----
    rd_pc,              \* position inside scrape_article, lines 419-463
    article,            \* the dict article_data of extract_article_content
    full_html_for_file, \* the file rendering, as lines
    content_db,         \* content_for_db, the store rendering, as lines
    \* ---- the file sink: _save_html_to_file ----
    sink_urls,          \* the URLs of the tasks that reach the file sink
    sink_done,          \* the tasks whose _save_html_to_file has returned
    output_html,        \* the folder: <<file name, task>> of every write
    \* ---- the resources of the workers: process_single_url ----
    scraper,            \* per task: its stage and what its TrstdlyScraper holds
    \* ---- the LD+JSON part of extract_article_content ----
    ld_pc,              \* position inside lines 214-236
    ld_json_script,     \* what soup.find('script', type=...) gives
    ld_item,            \* index of the item the loop is at
    ld_raised,          \* which except clause has logged, if any (history)
    article_ld,         \* the seven ld_ fields of article_data
    \* ---- the feed export: convert_json_to_wordpress_xml ----
    feed_pc,            \* position inside convert_json_to_wordpress_xml
    articles,           \* the batch of article records
    feed_index,         \* the loop variable index of enumerate(articles)
    xml_parts,          \* the parts appended so far, in order
    \* ---- the feed export: remove_trstdly_references ----
    sc_pc,              \* position inside remove_trstdly_references
    remaining_content,  \* the body process_content hands over, as characters
    scrub_content,      \* the local content of remove_trstdly_references
    \* ---- the feed export: truncate_text_intelligently ----
    tr_pc,              \* position inside truncate_text_intelligently
    tr_text,            \* the argument text, as characters
    truncated_text,     \* the local truncated_text
    tr_iter,            \* iterations of the while loop made so far (history)
    tr_result,          \* the value returned
    \* ---- _post_process_content applied to its own result ----
    pp_pc,              \* how often _post_process_content has been applied
    pp_content,         \* the argument content, as lines
    pp_once,            \* _post_process_content(content)
    pp_twice            \* _post_process_content of pp_once

coordVars == <<all_urls, table_exists, rows, id_seq, pc, existing_urls_set,
               urls_to_scrape, skipped_count, submitted, task, collected,
               results, success_count, failed_count, n_select, last_write,
               ext_writes>>
imgVars == <<img_pc, body, body0, img_idx, api_calls, api_resp, content_html>>
fetchVars == <<f_pc, f_url, f_calls, f_attempt, f_log, f_slept>>
normVars == <<nm_pc, nm_run, article_container, content_copy, figures, fig_i,
              rewrites, content, clean_content, first_output>>
renderVars == <<rd_pc, article, full_html_for_file, content_db>>
sinkVars == <<sink_urls, sink_done, output_html>>
contentVars == <<normVars, renderVars, sinkVars>>
connVars == <<scraper>>
ldVars == <<ld_pc, ld_json_script, ld_item, ld_raised, article_ld>>
feedVars == <<feed_pc, articles, feed_index, xml_parts>>
scrubVars == <<sc_pc, remaining_content, scrub_content>>
truncVars == <<tr_pc, tr_text, truncated_text, tr_iter, tr_result>>
postVars == <<pp_pc, pp_content, pp_once, pp_twice>>
auxVars == <<connVars, ldVars, feedVars, scrubVars, truncVars, postVars>>
vars == <<coordVars, imgVars, fetchVars, contentVars, auxVars>>

(***************************************************************************)
(* Bounds of the model.                                                    *)
(***************************************************************************)
\* longest input list
MaxUrls == 3
\* upserts the concurrent writer may commit during one run
MaxExternalWrites == 1
\* most children of the content body
MaxNodes == 3
\* longest input list of a run that shares the table with another writer
MaxSharedUrls == 2
\* most articles of a batch given to the feed export
MaxBatch == 3
\* most pieces a body given to remove_trstdly_references is made of
MaxPieces == 3
\* longest text given to truncate_text_intelligently
MaxText == 5
\* most lines of a content text given to _post_process_content
MaxLines == 3
\* most iterations of the sentence-removal loop that are followed
MaxIterations == 3

(***************************************************************************)
(* Program constants.                                                      *)
(***************************************************************************)
\* The pool ceiling.  The source sets 15; the model runs the same pool with
\* a ceiling of 2 so that candidate lists longer than the ceiling occur.
MAX_WORKERS == 2
\* fetch_page(url, max_retries=3)
max_retries == 3
\* TrstdlyScraper(delay=1.5), in tenths of a second
delay == 15
\* The length limit of truncate_text_intelligently.  The source sets 250;
\* the model runs the same function with a limit of 3 so that texts longer
\* than the limit, with several sentences, occur.
TextLimit == 3

(***************************************************************************)
(* Strings.                                                                *)
(***************************************************************************)
SP == " "

RECURSIVE LStrip(_)
LStrip(s) ==
    IF s # <<>> /\ Head(s) = SP THEN LStrip(Tail(s)) ELSE s

RECURSIVE RStrip(_)
RStrip(s) ==
    IF s # <<>> /\ s[Len(s)] = SP THEN RStrip(SubSeq(s, 1, Len(s) - 1)) ELSE s

\* SQL TRIM(url) and Python str.strip(): both ends, whitespace
Trim(s) ==
    RStrip(LStrip(s))

StartsWith(s, p) ==
    Len(s) >= Len(p) /\ SubSeq(s, 1, Len(p)) = p

\* Article URLs, written by the part in which they differ.  Each stands for
\* a full address "https://host/section/slug", so the progress line of
\* main(), which prints url.split('/')[-2], is defined for every one of them.
UrlA == <<"a">>
UrlB == <<"b">>
UrlBsp == <<"b", " ">>

\* URLs that may appear in the input list
InputUrls == {UrlA, UrlB, UrlBsp}
\* URLs that may already be stored when the run starts
StoredUrls == {UrlA, UrlBsp}
AllUrls == InputUrls \cup StoredUrls

(***************************************************************************)
(* The Store: table scraped_articles (init_db) and the upsert of           *)
(* _save_to_db.                                                            *)
(***************************************************************************)
\* a Python None / SQL NULL
None == "None"

\* the columns the upsert statement supplies, url first
UpsertColumns ==
    {"url", "title", "meta_description", "meta_keywords", "meta_tag",
     "author_name", "type", "publisher_name", "publisher_url",
     "date_published", "date_created", "date_modified", "content"}

\* page contents a fetch may return for a URL
Pages == {"v1"}

\* article_data as extract_article_content fills it from a fetched page: every
\* field is a value read from that page
ArticleData(url, page) ==
    [url |-> url,
     title |-> <<"title", page>>,
     meta_description |-> <<"meta_description", page>>,
     meta_keywords |-> <<"meta_keywords", page>>,
     meta_tag |-> <<"meta_tag", page>>,
     ld_type |-> <<"ld_type", page>>,
     ld_date_created |-> <<"ld_date_created", page>>,
     ld_date_published |-> <<"ld_date_published", page>>,
     ld_date_modified |-> <<"ld_date_modified", page>>,
     ld_author_name |-> <<"ld_author_name", page>>,
     ld_publisher_name |-> <<"ld_publisher_name", page>>,
     ld_publisher_url |-> <<"ld_publisher_url", page>>]

\* content_for_db as scrape_article assembles it from the page
ContentForDb(page) ==
    <<"content_for_db", page>>

\* data_tuple of _save_to_db: which article_data field feeds which column
DataTuple(article_data, content_for_db) ==
    [url |-> article_data.url,
     title |-> article_data.title,
     meta_description |-> article_data.meta_description,
     meta_keywords |-> article_data.meta_keywords,
     meta_tag |-> article_data.meta_tag,
     author_name |-> article_data.ld_author_name,
     type |-> article_data.ld_type,
     publisher_name |-> article_data.ld_publisher_name,
     publisher_url |-> article_data.ld_publisher_url,
     date_published |-> article_data.ld_date_published,
     date_created |-> article_data.ld_date_created,
     date_modified |-> article_data.ld_date_modified,
     content |-> content_for_db]

\* a table row: the supplied columns plus the generated id
MakeRow(id, t) ==
    [id |-> id,
     url |-> t.url,
     title |-> t.title,
     meta_description |-> t.meta_description,
     meta_keywords |-> t.meta_keywords,
     meta_tag |-> t.meta_tag,
     author_name |-> t.author_name,
     type |-> t.type,
     publisher_name |-> t.publisher_name,
     publisher_url |-> t.publisher_url,
     date_published |-> t.date_published,
     date_created |-> t.date_created,
     date_modified |-> t.date_modified,
     content |-> t.content]

\* Faulty variant: the conflict branch forgets one column (a partial patch).
Upsert_keepsOldContent(table, seq, t) ==
    LET conflict == {r \in table : r.url = t.url}
    IN  IF conflict = {}
        THEN table \cup {MakeRow(seq, t)}
        ELSE (table \ conflict) \cup
             {[MakeRow(r.id, t) EXCEPT !.content = r.content] : r \in conflict}

\* Faulty variant: the conflicting row is deleted and inserted again, with a new id.
Upsert_deleteInsert(table, seq, t) ==
    LET conflict == {r \in table : r.url = t.url}
    IN  (table \ conflict) \cup {MakeRow(seq, t)}

\* INSERT ... ON CONFLICT (url) DO UPDATE SET <the twelve other columns>:
\* the table after the statement commits; seq is the value the statement
\* draws from the id sequence (drawn also when the row conflicts)
Upsert(table, seq, t) ==
    LET conflict == {r \in table : r.url = t.url}
    IN  IF conflict = {}
        THEN table \cup {MakeRow(seq, t)}
        ELSE (table \ conflict) \cup
             {[r EXCEPT !.title = t.title,
                        !.meta_description = t.meta_description,
                        !.meta_keywords = t.meta_keywords,
                        !.meta_tag = t.meta_tag,
                        !.author_name = t.author_name,
                        !.type = t.type,
                        !.publisher_name = t.publisher_name,
                        !.publisher_url = t.publisher_url,
                        !.date_published = t.date_published,
                        !.date_created = t.date_created,
                        !.date_modified = t.date_modified,
                        !.content = t.content] : r \in conflict}

\* rows present before the run: written by an earlier run
OldRow(url) ==
    MakeRow(IF url = UrlA THEN 1 ELSE 2,
            DataTuple(ArticleData(url, "old"), ContentForDb("old")))

\* first id the sequence hands out during the run
FirstFreeId == Cardinality(StoredUrls) + 1

(***************************************************************************)
(* The fetcher: fetch_page.                                                *)
(***************************************************************************)
\* `if attempt < max_retries - 1` : sleep before the next attempt
SleepsAfter_always(attempt) ==
    TRUE

SleepsAfter(attempt) ==
    attempt < max_retries - 1

\* time.sleep(self.delay * (attempt + 1)), in tenths of a second
SleepTime_constant(attempt) ==
    delay

SleepTime(attempt) ==
    delay * (attempt + 1)

\* `for attempt in range(max_retries)` : the attempts the loop may make
Attempts_oneMore ==
    0 .. max_retries

Attempts ==
    0 .. (max_retries - 1)

(***************************************************************************)
(* Tasks: process_single_url run by a pool thread.                         *)
(***************************************************************************)
RunningStages == {"Fetching", "Extracting", "Normalizing", "Persisting"}
TerminalStages == {"Succeeded", "Failed"}

StatusSaved == "Successfully saved to database."
StatusNoScrape == "Failed to scrape content"
StatusCritical == "Critical Error"
StatusNoConnection == "Failed: No database connection"
StatusDbError == "Failed: db error"

\* `"Success" in status`
ContainsSuccess(status) ==
    status = StatusSaved

\* a future that has not started
PendingTask ==
    [stage |-> "Pending", page |-> None, status |-> None]

TaskIds == DOMAIN task
Running == {k \in TaskIds : task[k].stage \in RunningStages}

\* the return value (url, status) of process_single_url
Finish(k, stage, status) ==
    task' = [task EXCEPT ![k].stage = stage, ![k].status = status]

(***************************************************************************)
(* main(): steps 1-3, before the pool.                                     *)
(***************************************************************************)
\* init_db: CREATE TABLE IF NOT EXISTS; every failure is logged and swallowed
InitDb ==
    /\ pc = "init_db"
    /\ \E outcome \in {"created", "no_connection", "error"} :
           table_exists' = (table_exists \/ outcome = "created")
    /\ pc' = "prefetch"
    /\ UNCHANGED <<all_urls, rows, id_seq, existing_urls_set, urls_to_scrape,
                   skipped_count, submitted, task, collected, results,
                   success_count, failed_count, n_select, last_write,
                   ext_writes>>
    /\ UNCHANGED <<imgVars, fetchVars, contentVars, auxVars>>

\* get_existing_urls: {row[0] for row in results if row[0]} over TRIM(url),
\* or the empty set when psycopg2 raises
SelectTrimmedUrls(table) ==
    {Trim(r.url) : r \in table} \ {<<>>}

\* faulty variant: the error of the query ends the run
GetExistingUrls_raises ==
    /\ pc = "prefetch"
    /\ \E ok \in BOOLEAN :
           /\ ok => table_exists
           /\ existing_urls_set' = IF ok THEN SelectTrimmedUrls(rows) ELSE {}
    /\ n_select' = n_select + 1
    /\ pc' = IF existing_urls_set' = SelectTrimmedUrls(rows)
              THEN "filter" ELSE "done"
    /\ UNCHANGED <<all_urls, table_exists, rows, id_seq, urls_to_scrape,
                   skipped_count, submitted, task, collected, results,
                   success_count, failed_count, last_write, ext_writes>>
    /\ UNCHANGED <<imgVars, fetchVars, contentVars, auxVars>>

GetExistingUrls ==
    /\ pc = "prefetch"
    /\ \E ok \in BOOLEAN :
           /\ ok => table_exists
           /\ existing_urls_set' = IF ok THEN SelectTrimmedUrls(rows) ELSE {}
    /\ n_select' = n_select + 1
    /\ pc' = "filter"
    /\ UNCHANGED <<all_urls, table_exists, rows, id_seq, urls_to_scrape,
                   skipped_count, submitted, task, collected, results,
                   success_count, failed_count, last_write, ext_writes>>
    /\ UNCHANGED <<imgVars, fetchVars, contentVars, auxVars>>

\* Faulty variant: the kept URLs come out in reverse order.
RECURSIVE Reverse(_)
Reverse(s) ==
    IF s = <<>> THEN <<>> ELSE Append(Reverse(Tail(s)), Head(s))

FilterUrls_reversed(urls, existing) ==
    Reverse(SelectSeq(urls, LAMBDA u : u \notin existing))

\* [url for url in all_urls if url not in existing_urls_set]
FilterUrls(urls, existing) ==
    SelectSeq(urls, LAMBDA u : u \notin existing)

Filter ==
    /\ pc = "filter"
    /\ urls_to_scrape' = FilterUrls(all_urls, existing_urls_set)
    /\ skipped_count' = Len(all_urls) - Len(urls_to_scrape')
    /\ task' = [k \in 1 .. Len(urls_to_scrape') |-> PendingTask]
    /\ pc' = IF urls_to_scrape' = <<>> THEN "done" ELSE "submit"
    /\ UNCHANGED <<all_urls, table_exists, rows, id_seq, existing_urls_set,
                   submitted, collected, results, success_count, failed_count,
                   n_select, last_write, ext_writes>>
    /\ UNCHANGED <<imgVars, fetchVars, contentVars, auxVars>>

(***************************************************************************)
(* main(): step 4, the pool.                                               *)
(***************************************************************************)
\* executor.submit(process_single_url, url), one call per list element
Submit ==
    /\ pc = "submit"
    /\ submitted < Len(urls_to_scrape)
    /\ submitted' = submitted + 1
    /\ pc' = IF submitted' = Len(urls_to_scrape) THEN "collect" ELSE "submit"
    /\ UNCHANGED <<all_urls, table_exists, rows, id_seq, existing_urls_set,
                   urls_to_scrape, skipped_count, task, collected, results,
                   success_count, failed_count, n_select, last_write,
                   ext_writes>>
    /\ UNCHANGED <<imgVars, fetchVars, contentVars, auxVars>>

\* Faulty variant: the pool starts a thread for every submitted future.
PoolHasFreeWorker_unbounded ==
    TRUE

\* Faulty variant: a thread serves one future and is not used again.
PoolHasFreeWorker_noReuse ==
    Cardinality({k \in TaskIds : task[k].stage # "Pending"}) < MAX_WORKERS

\* ThreadPoolExecutor(max_workers=MAX_WORKERS)
PoolHasFreeWorker ==
    Cardinality(Running) < MAX_WORKERS

\* Faulty variant: the worker asks the Store whether its URL exists (the per-URL
\* check of paralel_modifide0.py) before it scrapes.
BeginTask_perUrlCheck(k) ==
    /\ task' = [task EXCEPT ![k].stage = "Fetching"]
    /\ n_select' = n_select + 1

\* process_single_url up to the call of fetch_page
BeginTask(k) ==
    /\ task' = [task EXCEPT ![k].stage = "Fetching"]
    /\ n_select' = n_select

\* a pool thread takes the oldest queued future
StartTask(k) ==
    /\ k \in TaskIds
    /\ k <= submitted
    /\ task[k].stage = "Pending"
    /\ \A j \in 1 .. (k - 1) : task[j].stage # "Pending"
    /\ PoolHasFreeWorker
    /\ BeginTask(k)
    /\ UNCHANGED <<all_urls, table_exists, rows, id_seq, pc, existing_urls_set,
                   urls_to_scrape, skipped_count, submitted, collected,
                   results, success_count, failed_count, last_write,
                   ext_writes>>
    /\ UNCHANGED <<imgVars, fetchVars, contentVars, auxVars>>

\* scrape_article line 414-415 as the pool thread sees it: fetch_page blocks
\* and ends in one of three ways (its loop is modelled step by step below,
\* FetchCall .. FetchReturn)
\*   "page"   a parsed page
\*   "none"   None: scrape_article returns None and the status is "Failed to
\*            scrape content"
\*   "raised" an exception other than requests.RequestException, which
\*            process_single_url catches
FetchPage(k) ==
    /\ k \in TaskIds
    /\ task[k].stage = "Fetching"
    /\ \E outcome \in {"page", "none", "raised"} :
           \/ /\ outcome = "page"
              /\ \E page \in Pages :
                     task' = [task EXCEPT ![k].stage = "Extracting",
                                          ![k].page = page]
           \/ /\ outcome = "none"
              /\ Finish(k, "Failed", StatusNoScrape)
           \/ /\ outcome = "raised"
              /\ Finish(k, "Failed", StatusCritical)
    /\ UNCHANGED <<all_urls, table_exists, rows, id_seq, pc, existing_urls_set,
                   urls_to_scrape, skipped_count, submitted, collected,
                   results, success_count, failed_count, n_select, last_write,
                   ext_writes>>
    /\ UNCHANGED <<imgVars, fetchVars, contentVars, auxVars>>

\* Faulty variant: the task goes from extraction straight to the Store write.
Extract_skipsNormalizing(k) ==
    /\ k \in TaskIds
    /\ task[k].stage = "Extracting"
    /\ \E raised \in BOOLEAN :
           IF raised
           THEN Finish(k, "Failed", StatusCritical)
           ELSE task' = [task EXCEPT ![k].stage = "Persisting"]
    /\ UNCHANGED <<all_urls, table_exists, rows, id_seq, pc, existing_urls_set,
                   urls_to_scrape, skipped_count, submitted, collected,
                   results, success_count, failed_count, n_select, last_write,
                   ext_writes>>
    /\ UNCHANGED <<imgVars, fetchVars, contentVars, auxVars>>

\* extract_article_content up to the call of _extract_raw_content; an
\* exception it does not catch is caught by process_single_url
Extract(k) ==
    /\ k \in TaskIds
    /\ task[k].stage = "Extracting"
    /\ \E raised \in BOOLEAN :
           IF raised
           THEN Finish(k, "Failed", StatusCritical)
           ELSE task' = [task EXCEPT ![k].stage = "Normalizing"]
    /\ UNCHANGED <<all_urls, table_exists, rows, id_seq, pc, existing_urls_set,
                   urls_to_scrape, skipped_count, submitted, collected,
                   results, success_count, failed_count, n_select, last_write,
                   ext_writes>>
    /\ UNCHANGED <<imgVars, fetchVars, contentVars, auxVars>>

\* _extract_raw_content, then the two renderings and the sleep of
\* scrape_article; an exception is caught by process_single_url
Normalize(k) ==
    /\ k \in TaskIds
    /\ task[k].stage = "Normalizing"
    /\ \E raised \in BOOLEAN :
           IF raised
           THEN Finish(k, "Failed", StatusCritical)
           ELSE task' = [task EXCEPT ![k].stage = "Persisting"]
    /\ UNCHANGED <<all_urls, table_exists, rows, id_seq, pc, existing_urls_set,
                   urls_to_scrape, skipped_count, submitted, collected,
                   results, success_count, failed_count, n_select, last_write,
                   ext_writes>>
    /\ UNCHANGED <<imgVars, fetchVars, contentVars, auxVars>>

\* cur.execute(upsert_query, data_tuple); conn.commit()
CommitUpsert(t) ==
    /\ rows' = Upsert(rows, id_seq, t)
    /\ id_seq' = id_seq + 1
    /\ last_write' = [last_write EXCEPT ![t.url] = {t}]

\* _save_html_to_file (which swallows its own failures), then _save_to_db:
\*   "saved"         the upsert commits
\*   "no_connection" _connect_db leaves self.conn None
\*   "db_error"      psycopg2.Error: rollback, nothing is written
Persist(k) ==
    /\ k \in TaskIds
    /\ task[k].stage = "Persisting"
    /\ \E outcome \in {"saved", "no_connection", "db_error"} :
           \/ /\ outcome = "saved"
              /\ table_exists
              /\ CommitUpsert(DataTuple(ArticleData(urls_to_scrape[k], task[k].page),
                                        ContentForDb(task[k].page)))
              /\ Finish(k, "Succeeded", StatusSaved)
           \/ /\ outcome = "no_connection"
              /\ Finish(k, "Failed", StatusNoConnection)
              /\ UNCHANGED <<rows, id_seq, last_write>>
           \/ /\ outcome = "db_error"
              /\ Finish(k, "Failed", StatusDbError)
              /\ UNCHANGED <<rows, id_seq, last_write>>
    /\ UNCHANGED <<all_urls, table_exists, pc, existing_urls_set,
                   urls_to_scrape, skipped_count, submitted, collected,
                   results, success_count, failed_count, n_select, ext_writes>>
    /\ UNCHANGED <<imgVars, fetchVars, contentVars, auxVars>>

\* results[completed_url] = status
Record(d, url, status) ==
    [u \in DOMAIN d \cup {url} |-> IF u = url THEN status ELSE d[u]]

\* one iteration of `for i, future in enumerate(as_completed(future_to_url), 1)`
Collect(k) ==
    /\ pc = "collect"
    /\ k \in TaskIds \ collected
    /\ task[k].stage \in TerminalStages
    /\ results' = Record(results, urls_to_scrape[k], task[k].status)
    /\ collected' = collected \cup {k}
    /\ pc' = IF collected' = TaskIds THEN "summary" ELSE "collect"
    /\ UNCHANGED <<all_urls, table_exists, rows, id_seq, existing_urls_set,
                   urls_to_scrape, skipped_count, submitted, task,
                   success_count, failed_count, n_select, last_write,
                   ext_writes>>
    /\ UNCHANGED <<imgVars, fetchVars, contentVars, auxVars>>

\* step 5: success_count and failed_count
Summarize ==
    /\ pc = "summary"
    /\ success_count' =
           Cardinality({u \in DOMAIN results : ContainsSuccess(results[u])})
    /\ failed_count' = Cardinality(DOMAIN results) - success_count'
    /\ pc' = "done"
    /\ UNCHANGED <<all_urls, table_exists, rows, id_seq, existing_urls_set,
                   urls_to_scrape, skipped_count, submitted, task, collected,
                   results, n_select, last_write, ext_writes>>
    /\ UNCHANGED <<imgVars, fetchVars, contentVars, auxVars>>

\* Another process that runs the same _save_to_db on the same table while this
\* run is under way (paralel_scrape.py, which has no prefetch).
ExternalWrite ==
    /\ pc # "done"
    /\ table_exists
    /\ ext_writes < MaxExternalWrites
    /\ \E url \in AllUrls :
           CommitUpsert(DataTuple(ArticleData(url, "ext"), ContentForDb("ext")))
    /\ ext_writes' = ext_writes + 1
    /\ UNCHANGED <<all_urls, table_exists, pc, existing_urls_set,
                   urls_to_scrape, skipped_count, submitted, task, collected,
                   results, success_count, failed_count, n_select>>
    /\ UNCHANGED <<imgVars, fetchVars, contentVars, auxVars>>

(***************************************************************************)
(* The run.                                                                *)
(***************************************************************************)
ImgIdle ==
    /\ img_pc = "idle"
    /\ body = <<>>
    /\ body0 = <<>>
    /\ img_idx = 0
    /\ api_calls = <<>>
    /\ api_resp = <<>>
    /\ content_html = <<>>

FetchIdle ==
    /\ f_pc = "idle"
    /\ f_url = <<>>
    /\ f_calls = 0
    /\ f_attempt = 0
    /\ f_log = <<>>
    /\ f_slept = <<>>

NormIdle ==
    /\ nm_pc = "idle"
    /\ nm_run = 0
    /\ article_container = <<>>
    /\ content_copy = <<>>
    /\ figures = <<>>
    /\ fig_i = 0
    /\ rewrites = <<>>
    /\ content = <<>>
    /\ clean_content = <<>>
    /\ first_output = <<>>

RenderIdle ==
    /\ rd_pc = "idle"
    /\ article = <<>>
    /\ full_html_for_file = <<>>
    /\ content_db = <<>>

SinkIdle ==
    /\ sink_urls = <<>>
    /\ sink_done = {}
    /\ output_html = {}

ContentIdle ==
    /\ NormIdle
    /\ RenderIdle
    /\ SinkIdle

ConnIdle ==
    scraper = <<>>

LdIdle ==
    /\ ld_pc = "idle"
    /\ ld_json_script = <<>>
    /\ ld_item = 0
    /\ ld_raised = None
    /\ article_ld = <<>>

FeedIdle ==
    /\ feed_pc = "idle"
    /\ articles = <<>>
    /\ feed_index = 0
    /\ xml_parts = <<>>

ScrubIdle ==
    /\ sc_pc = "idle"
    /\ remaining_content = <<>>
    /\ scrub_content = <<>>

TruncIdle ==
    /\ tr_pc = "idle"
    /\ tr_text = <<>>
    /\ truncated_text = <<>>
    /\ tr_iter = 0
    /\ tr_result = <<>>

PostIdle ==
    /\ pp_pc = "idle"
    /\ pp_content = <<>>
    /\ pp_once = <<>>
    /\ pp_twice = <<>>

AuxIdle ==
    /\ PostIdle
    /\ TruncIdle
    /\ ScrubIdle
    /\ FeedIdle
    /\ LdIdle
    /\ ConnIdle

\* the state main() starts in, for input lists of at most n URLs
RunInit(n) ==
    /\ all_urls \in UNION {[1 .. m -> InputUrls] : m \in 0 .. n}
    /\ table_exists \in BOOLEAN
    /\ \E present \in SUBSET StoredUrls :
           rows = IF table_exists THEN {OldRow(u) : u \in present} ELSE {}
    /\ id_seq = FirstFreeId
    /\ pc = "init_db"
    /\ existing_urls_set = {}
    /\ urls_to_scrape = <<>>
    /\ skipped_count = 0
    /\ submitted = 0
    /\ task = <<>>
    /\ collected = {}
    /\ results = <<>>
    /\ success_count = 0
    /\ failed_count = 0
    /\ n_select = 0
    /\ last_write = [u \in AllUrls |-> {}]
    /\ ext_writes = 0

\* no run of main() in progress
RunIdle ==
    /\ all_urls = <<>>
    /\ table_exists = TRUE
    /\ rows = {}
    /\ id_seq = FirstFreeId
    /\ pc = "idle"
    /\ existing_urls_set = {}
    /\ urls_to_scrape = <<>>
    /\ skipped_count = 0
    /\ submitted = 0
    /\ task = <<>>
    /\ collected = {}
    /\ results = <<>>
    /\ success_count = 0
    /\ failed_count = 0
    /\ n_select = 0
    /\ last_write = [u \in AllUrls |-> {}]
    /\ ext_writes = 0

Init ==
    /\ RunInit(MaxUrls)
    /\ ImgIdle
    /\ FetchIdle
    /\ ContentIdle
    /\ AuxIdle

Next ==
    \/ InitDb
    \/ GetExistingUrls
    \/ Filter
    \/ Submit
    \/ \E k \in TaskIds : StartTask(k)
    \/ \E k \in TaskIds : FetchPage(k)
    \/ \E k \in TaskIds : Extract(k)
    \/ \E k \in TaskIds : Normalize(k)
    \/ \E k \in TaskIds : Persist(k)
    \/ \E k \in TaskIds : Collect(k)
    \/ Summarize

\* one run of main()
Spec == Init /\ [][Next]_vars

\* the runs that start with an empty table, with no table or with every
\* URL of StoredUrls stored
InitLive ==
    /\ Init
    /\ Cardinality(rows) \in {0, Cardinality(StoredUrls)}

\* the main thread and the pool threads are scheduled: while some step of
\* the run can be taken, a step is taken, and every blocking call (the
\* timeout=30 of fetch_page, the timeout=20 of compress_image_url, the
\* Store calls) returns
SpecLive == InitLive /\ [][Next]_vars /\ WF_vars(Next)

\* one run of main() while another writer upserts into the same table
InitShared ==
    /\ RunInit(MaxSharedUrls)
    /\ ImgIdle
    /\ FetchIdle
    /\ ContentIdle
    /\ AuxIdle

NextShared ==
    \/ Next
    \/ ExternalWrite

SpecShared == InitShared /\ [][NextShared]_vars


(***************************************************************************)
(* One call of scrape_article, its fetch part step by step:                *)
(* scrape_article lines 414-415 and the loop of fetch_page.                *)
(***************************************************************************)
\* the subclasses of requests.RequestException the attempt can end in:
\* the 30 s timeout, raise_for_status, a connection failure
RequestExceptions == {"Timeout", "HTTPError", "ConnectionError"}

\* soup = self.fetch_page(url)
FetchCall ==
    /\ f_pc = "scrape_article"
    /\ f_calls' = f_calls + 1
    /\ f_attempt' = 0
    /\ f_pc' = IF 0 \in Attempts THEN "attempt" ELSE "fetched_none"
    /\ UNCHANGED <<f_url, f_log, f_slept>>
    /\ UNCHANGED <<coordVars, imgVars, contentVars, auxVars>>

\* one iteration of `for attempt in range(max_retries)`
FetchAttempt ==
    /\ f_pc = "attempt"
    /\ \E outcome \in {"ok", "other"} \cup RequestExceptions :
           /\ f_log' = Append(f_log, outcome)
           /\ \/ /\ outcome = "ok"
                 /\ f_pc' = "fetched_page"
                 /\ UNCHANGED <<f_attempt, f_slept>>
              \/ /\ outcome = "other"
                 /\ f_pc' = "fetch_raised"
                 /\ UNCHANGED <<f_attempt, f_slept>>
              \/ /\ outcome \in RequestExceptions
                 /\ f_slept' = IF SleepsAfter(f_attempt)
                               THEN Append(f_slept, SleepTime(f_attempt))
                               ELSE f_slept
                 /\ f_attempt' = f_attempt + 1
                 /\ f_pc' = IF f_attempt + 1 \in Attempts
                            THEN "attempt" ELSE "fetched_none"
    /\ UNCHANGED <<f_url, f_calls>>
    /\ UNCHANGED <<coordVars, imgVars, contentVars, auxVars>>

\* `if not soup: return None`, else on to extract_article_content; an
\* exception of fetch_page leaves scrape_article as well
FetchReturn ==
    /\ f_pc \in {"fetched_page", "fetched_none", "fetch_raised"}
    /\ f_pc' = CASE f_pc = "fetched_page" -> "extract"
                 [] f_pc = "fetched_none" -> "return_none"
                 [] f_pc = "fetch_raised" -> "raise"
    /\ UNCHANGED <<f_url, f_calls, f_attempt, f_log, f_slept>>
    /\ UNCHANGED <<coordVars, imgVars, contentVars, auxVars>>

InitFetch ==
    /\ RunIdle
    /\ ImgIdle
    /\ ContentIdle
    /\ AuxIdle
    /\ f_pc = "scrape_article"
    /\ f_url \in AllUrls
    /\ f_calls = 0
    /\ f_attempt = 0
    /\ f_log = <<>>
    /\ f_slept = <<>>

NextFetch ==
    \/ FetchCall
    \/ FetchAttempt
    \/ FetchReturn

SpecFetch == InitFetch /\ [][NextFetch]_vars


(***************************************************************************)
(* _extract_raw_content, lines 299-329: the image loop over content_body   *)
(* and the loop that builds content_html; compress_image_url.              *)
(*                                                                         *)
(* content_body is a sequence of top-level nodes; a node is an image or a  *)
(* paragraph, and a paragraph may hold images of its own (find_all('img')  *)
(* descends into it).  An image without a src attribute and one with an    *)
(* empty src are the same to the code (`if original_src`): src = <<>>.     *)
(***************************************************************************)
HTTP == <<"h", "t", "t", "p">>

\* what the compression API may answer
CompressedUrl == <<"h", "t", "t", "p", ":", "c">>
RespNetworkError == [kind |-> "network_error", text |-> <<>>]
RespHttpError == [kind |-> "http_error", text |-> <<>>]
RespUrl == [kind |-> "body", text |-> CompressedUrl]
RespUrlPadded == [kind |-> "body", text |-> <<SP>> \o CompressedUrl \o <<SP>>]
RespText == [kind |-> "body", text |-> <<"e", "r", "r">>]
RespEmpty == [kind |-> "body", text |-> <<>>]
Responses ==
    {RespNetworkError, RespHttpError, RespUrl, RespUrlPadded, RespText,
     RespEmpty}
\* the entry of api_resp for an image the loop made no call for
NoCall == [kind |-> "no_call", text |-> <<>>]

\* Faulty variant: a failed call loses the image's src.
compress_image_url_dropsOnError(image_url, resp) ==
    IF resp.kind \in {"network_error", "http_error"}
    THEN <<>>
    ELSE LET compressed_url == Trim(resp.text)
         IN  IF StartsWith(compressed_url, HTTP)
             THEN compressed_url
             ELSE <<>>

\* requests.get / raise_for_status raise a RequestException on a network
\* error or a non-success status; otherwise the stripped body is taken when
\* it starts with "http"
compress_image_url(image_url, resp) ==
    IF resp.kind \in {"network_error", "http_error"}
    THEN image_url
    ELSE LET compressed_url == Trim(resp.text)
         IN  IF StartsWith(compressed_url, HTTP)
             THEN compressed_url
             ELSE image_url

ImgNode(src, alt) ==
    [tag |-> "img", src |-> src, alt |-> alt, kids |-> <<>>]

ParNode(kids) ==
    [tag |-> "p", src |-> <<>>, alt |-> <<>>, kids |-> kids]

\* the nodes the i-th child of content_body may be
NodeKinds == {"img", "img_nosrc", "p", "p_img", "p_img_nosrc"}

Digits == <<"1", "2", "3", "4", "5", "6", "7", "8", "9">>
SrcOf(i) == <<"s", Digits[i]>>
AltOf(i) == <<"a", Digits[i]>>

NodeOfKind(kind, i) ==
    CASE kind = "img" -> ImgNode(SrcOf(i), AltOf(i))
      [] kind = "img_nosrc" -> ImgNode(<<>>, AltOf(i))
      [] kind = "p" -> ParNode(<<>>)
      [] kind = "p_img" -> ParNode(<<ImgNode(SrcOf(i), AltOf(i))>>)
      [] kind = "p_img_nosrc" -> ParNode(<<ImgNode(<<>>, AltOf(i))>>)

\* content_body.find_all('img'): the images in document order, each as the
\* path <<i>> of a top-level image or <<i, j>> of the j-th child of node i
RECURSIVE ImgPathsFrom(_, _)
ImgPathsFrom(b, i) ==
    IF i > Len(b)
    THEN <<>>
    ELSE (IF b[i].tag = "img"
          THEN <<(<<i>>)>>
          ELSE SelectSeq([j \in 1 .. Len(b[i].kids) |-> <<i, j>>],
                         LAMBDA q : b[i].kids[q[2]].tag = "img"))
         \o ImgPathsFrom(b, i + 1)

ImgPaths(b) ==
    ImgPathsFrom(b, 1)

NodeAt(b, path) ==
    IF Len(path) = 1 THEN b[path[1]] ELSE b[path[1]].kids[path[2]]

\* img_tag['src'] = value
SetSrc(b, path, value) ==
    IF Len(path) = 1
    THEN [b EXCEPT ![path[1]].src = value]
    ELSE [b EXCEPT ![path[1]].kids[path[2]].src = value]

\* one iteration of `for img_tag in content_body.find_all('img')`
CompressImage ==
    /\ img_pc = "compress"
    /\ img_idx < Len(ImgPaths(body0))
    /\ LET path == ImgPaths(body0)[img_idx + 1]
           original_src == NodeAt(body, path).src
       IN  IF original_src # <<>>
           THEN \E resp \in Responses :
                    /\ body' = SetSrc(body, path,
                                      compress_image_url(original_src, resp))
                    /\ api_calls' = Append(api_calls, original_src)
                    /\ api_resp' = Append(api_resp, resp)
           ELSE /\ api_resp' = Append(api_resp, NoCall)
                /\ UNCHANGED <<body, api_calls>>
    /\ img_idx' = img_idx + 1
    /\ UNCHANGED <<img_pc, body0, content_html>>
    /\ UNCHANGED <<coordVars, fetchVars, contentVars, auxVars>>

\* the line of one child of content_body: an image is written from its src
\* and alt alone, any other element as it stands
LineOf(element) ==
    IF element.tag = "img"
    THEN ImgNode(element.src, element.alt)
    ELSE element

\* `for element in content_body.children`, after the image loop has ended
BuildContentHtml ==
    /\ img_pc = "compress"
    /\ img_idx = Len(ImgPaths(body0))
    /\ content_html' = [i \in 1 .. Len(body) |-> LineOf(body[i])]
    /\ img_pc' = "done"
    /\ UNCHANGED <<body, body0, img_idx, api_calls, api_resp>>
    /\ UNCHANGED <<coordVars, fetchVars, contentVars, auxVars>>

InitImg ==
    /\ RunIdle
    /\ FetchIdle
    /\ ContentIdle
    /\ AuxIdle
    /\ img_pc = "compress"
    /\ \E n \in 0 .. MaxNodes :
           \E kinds \in [1 .. n -> NodeKinds] :
               body = [i \in 1 .. n |-> NodeOfKind(kinds[i], i)]
    /\ body0 = body
    /\ img_idx = 0
    /\ api_calls = <<>>
    /\ api_resp = <<>>
    /\ content_html = <<>>

NextImg ==
    \/ CompressImage
    \/ BuildContentHtml

SpecImg == InitImg /\ [][NextImg]_vars


(***************************************************************************)
(* The Normalizer: _extract_raw_content (lines 241-329) followed by        *)
(* _post_process_content (lines 331-351).                                  *)
(*                                                                         *)
(* The tree is the sequence of children of the content container; a child  *)
(* may hold children of its own.  A node records its tag, the names of     *)
(* its attributes, its classes, the values of src and alt, its text and    *)
(* its child elements.  The text of a NavigableString is kept as the       *)
(* lines it splits into at '\n'; an element is written on one line.        *)
(***************************************************************************)
Element(tag, attrs, class, text, kids) ==
    [tag |-> tag, attrs |-> attrs, class |-> class, src |-> <<>>,
     alt |-> <<>>, text |-> text, kids |-> kids]

Image(attrs, src, alt) ==
    [tag |-> "img", attrs |-> attrs, class |-> {}, src |-> src, alt |-> alt,
     text |-> <<>>, kids |-> <<>>]

NavigableString(lines) ==
    [tag |-> "#text", attrs |-> {}, class |-> {}, src |-> <<>>, alt |-> <<>>,
     text |-> lines, kids |-> <<>>]

\* BeautifulSoup(img_str, 'html.parser'): a document object around the
\* parsed markup; str() of it writes its children only
Document(kids) ==
    Element("[document]", {}, {}, <<>>, kids)

TxtOf(i) == "t" \o Digits[i]
CapOf(i) == "c" \o Digits[i]
Cap2Of(i) == "d" \o Digits[i]

\* the children the page's container may have at position i
BlockKinds ==
    {"figure_img_caption", "figure_img_captions", "figure_caption", "p",
     "p_img", "img", "text", "script", "div_p"}

PageImage(i) ==
    Image({"src", "alt", "class"}, SrcOf(i), AltOf(i))

BlockOfKind(kind, i) ==
    CASE kind = "figure_img_caption" ->
             Element("figure", {"class"}, {"photo"}, <<>>,
                     <<PageImage(i),
                       Element("figcaption", {"class"}, {"credit"},
                               <<CapOf(i)>>, <<>>)>>)
      [] kind = "figure_img_captions" ->
             Element("figure", {}, {}, <<>>,
                     <<Element("figcaption", {}, {}, <<CapOf(i)>>, <<>>),
                       PageImage(i),
                       Element("figcaption", {"id"}, {}, <<Cap2Of(i)>>, <<>>)>>)
      [] kind = "figure_caption" ->
             Element("figure", {}, {}, <<>>,
                     <<Element("figcaption", {}, {}, <<CapOf(i)>>, <<>>)>>)
      [] kind = "p" ->
             Element("p", {"class", "style"}, {"lead"}, <<TxtOf(i)>>,
                     <<Element("a", {"href", "target"}, {}, <<TxtOf(i)>>,
                               <<>>)>>)
      [] kind = "p_img" ->
             Element("p", {}, {}, <<>>, <<PageImage(i)>>)
      [] kind = "img" ->
             PageImage(i)
      [] kind = "text" ->
             NavigableString(<<TxtOf(i)>>)
      [] kind = "script" ->
             Element("script", {}, {}, <<"js">>, <<>>)
      [] kind = "div_p" ->
             Element("div", {"class"}, {"wrap"}, <<>>,
                     <<Element("p", {"style"}, {}, <<TxtOf(i)>>, <<>>)>>)

\* ---- lines 247-254: the unwanted selectors ----
UnwantedTags == {"script", "style", "time"}
UnwantedClasses == {"article-share", "gpt-ads", "banner", "article-tag"}

IsUnwanted(n) ==
    \/ n.tag \in UnwantedTags
    \/ n.class \cap UnwantedClasses # {}
    \/ n.tag = "nav" /\ "aria-label" \in n.attrs
    \/ n.tag = "h1" /\ "article-title" \in n.class
    \/ n.tag = "p" /\ "article-sinopsis" \in n.class
    \/ {"flex", "flex-wrap", "justify-between"} \subseteq n.class

\* elem.decompose() for every match of every selector
Decompose(tree) ==
    LET kept == SelectSeq(tree, LAMBDA n : ~IsUnwanted(n))
    IN  [p \in 1 .. Len(kept) |->
            [kept[p] EXCEPT
                !.kids = SelectSeq(@, LAMBDA n : ~IsUnwanted(n))]]

\* ---- lines 256-282: figures ----
find_all_figure(tree) ==
    SelectSeq(tree, LAMBDA n : n.tag = "figure")

\* figure.find('img'): <<>> when the figure holds no image
find_img(figure) ==
    SelectSeq(figure.kids, LAMBDA n : n.tag = "img")

\* figure.find_all('figcaption')
find_all_figcaption(figure) ==
    SelectSeq(figure.kids, LAMBDA n : n.tag = "figcaption")

\* <img src="{img.get("src", "")}" alt="{img.get("alt", "")}"/>
BareImage(img) ==
    Image({"src", "alt"}, img.src, img.alt)

\* new_fc = soup.new_tag('figcaption'); new_fc.extend(fc.contents)
NewFigcaption(fc) ==
    Element("figcaption", {}, {}, fc.text, fc.kids)

\* Faulty variant: a figure without an image is left in the tree.
Restructured_keepsImageless(i, figure) ==
    LET imgs == find_img(figure)
        fcs == find_all_figcaption(figure)
    IN  IF imgs = <<>>
        THEN <<figure>>
        ELSE IF i = 0
             THEN <<Document(<<BareImage(imgs[1])>>)>>
             ELSE <<BareImage(imgs[1])>>
                  \o [c \in 1 .. Len(fcs) |-> NewFigcaption(fcs[c])]

\* Faulty variant: the captions are inserted in reverse, before the image.
Restructured_captionsReversed(i, figure) ==
    LET imgs == find_img(figure)
        fcs == find_all_figcaption(figure)
    IN  IF imgs = <<>>
        THEN <<>>
        ELSE IF i = 0
             THEN <<Document(<<BareImage(imgs[1])>>)>>
             ELSE [c \in 1 .. Len(fcs) |->
                      NewFigcaption(fcs[Len(fcs) + 1 - c])]
                  \o <<BareImage(imgs[1])>>

\* what stands in the place of the i-th figure of enumerate(figures) after
\* its iteration: nothing, the cover, or the image and its captions
Restructured(i, figure) ==
    LET imgs == find_img(figure)
        fcs == find_all_figcaption(figure)
    IN  IF imgs = <<>>
        THEN <<>>
        ELSE IF i = 0
             THEN <<Document(<<BareImage(imgs[1])>>)>>
             ELSE <<BareImage(imgs[1])>>
                  \o [c \in 1 .. Len(fcs) |-> NewFigcaption(fcs[c])]

\* the position of a node in the tree
PositionOf(tree, node) ==
    CHOOSE p \in 1 .. Len(tree) : tree[p] = node

Splice(tree, p, nodes) ==
    SubSeq(tree, 1, p - 1) \o nodes \o SubSeq(tree, p + 1, Len(tree))

\* ---- lines 284-297: iframe keeps src, a keeps href, the listed tags
\* keep nothing ----
PlainTags ==
    {"li", "span", "h1", "h2", "h3", "h4", "h5", "h6", "p", "ol", "ul",
     "blockquote"}

\* Faulty variant: the anchor loses its href as well.
SimplifyTag_dropsHref(n) ==
    CASE n.tag = "iframe" ->
             [n EXCEPT !.attrs = IF "src" \in @ /\ n.src # <<>>
                                 THEN {"src"} ELSE {},
                       !.class = {}]
      [] n.tag = "a" ->
             [n EXCEPT !.attrs = {}, !.class = {}]
      [] n.tag \in PlainTags ->
             [n EXCEPT !.attrs = {}, !.class = {}]
      [] OTHER -> n

SimplifyTag(n) ==
    CASE n.tag = "iframe" ->
             [n EXCEPT !.attrs = IF "src" \in @ /\ n.src # <<>>
                                 THEN {"src"} ELSE {},
                       !.class = {}]
      [] n.tag = "a" ->
             [n EXCEPT !.attrs = @ \cap {"href"}, !.class = {}]
      [] n.tag \in PlainTags ->
             [n EXCEPT !.attrs = {}, !.class = {}]
      [] OTHER -> n

\* find_all reaches every depth
SimplifyTags(tree) ==
    [p \in 1 .. Len(tree) |->
        [SimplifyTag(tree[p]) EXCEPT
            !.kids = [q \in 1 .. Len(@) |-> SimplifyTag(@[q])]]]

\* ---- lines 299-303: div_tag.unwrap() ----
RECURSIVE UnwrapDivs(_)
UnwrapDivs(tree) ==
    IF tree = <<>>
    THEN <<>>
    ELSE (IF Head(tree).tag = "div" THEN Head(tree).kids ELSE <<Head(tree)>>)
         \o UnwrapDivs(Tail(tree))

\* ---- lines 305-309: the image loop, all iterations ----
\* the answers of the compression API told apart here: a URL, or no answer
RewriteAnswers == {RespUrl, RespNetworkError}

RECURSIVE Rewritten(_, _, _, _)
Rewritten(tree, paths, answers, k) ==
    IF k > Len(paths)
    THEN tree
    ELSE LET original_src == NodeAt(tree, paths[k]).src
         IN  Rewritten(IF original_src # <<>>
                       THEN SetSrc(tree, paths[k],
                                   compress_image_url(original_src,
                                                      answers[k]))
                       ELSE tree,
                       paths, answers, k + 1)

\* ---- lines 311-329: content_html, one entry per line ----
BlankLine == NavigableString(<<"">>)

IsBlank(line) ==
    line.tag = "#text" /\ line.text = <<"">>

\* str.strip() of the whole text: blank lines at either end go
RECURSIVE StripLines(_)
StripLines(lines) ==
    IF lines = <<>>
    THEN <<>>
    ELSE IF IsBlank(Head(lines))
         THEN StripLines(Tail(lines))
         ELSE IF IsBlank(lines[Len(lines)])
              THEN StripLines(SubSeq(lines, 1, Len(lines) - 1))
              ELSE lines

\* the lines one child of content_body adds to content_html
LinesOf(element) ==
    CASE element.tag = "#text" ->
             IF \A k \in 1 .. Len(element.text) : element.text[k] = ""
             THEN <<>>
             ELSE [k \in 1 .. Len(element.text) |->
                      NavigableString(<<element.text[k]>>)]
      [] element.tag = "img" -> <<BareImage(element)>>
      [] element.tag = "[document]" -> element.kids
      [] OTHER -> <<element>>

RECURSIVE BuildLines(_)
BuildLines(tree) ==
    IF tree = <<>>
    THEN <<>>
    ELSE LinesOf(Head(tree)) \o BuildLines(Tail(tree))

\* ---- _post_process_content, lines 336-351.  The substitutions of lines
\* 332-335 rewrite body, html and br tags, which no line here holds. ----
StartsWithImg(line) ==
    line.tag = "img" /\ line.attrs # {}

EmptySpan(line) ==
    line.tag = "span" /\ line.attrs = {} /\ line.text = <<>>
    /\ line.kids = <<>>

\* line 342
BlockLine(line) ==
    \/ StartsWithImg(line)
    \/ line.tag = "figcaption" /\ line.attrs = {}
    \/ line.tag = "h2" /\ line.attrs = {}
    \/ EmptySpan(line)
    \/ line.tag = "iframe"
    \/ line.tag = "p" /\ line.attrs = {}

\* line 347
NextLineOpensBlock(line) ==
    \/ StartsWithImg(line)
    \/ EmptySpan(line)
    \/ line.tag = "h2" /\ line.attrs = {}
    \/ line.tag = "iframe"

RECURSIVE ProcessedLines(_, _)
ProcessedLines(lines, i) ==
    IF i > Len(lines)
    THEN <<>>
    ELSE LET line == lines[i]
         IN  IF IsBlank(line)
             THEN ProcessedLines(lines, i + 1)
             ELSE <<line>>
                  \o (IF BlockLine(line)
                      THEN (IF StartsWithImg(line) THEN <<>>
                            ELSE <<BlankLine>>)
                      ELSE IF line.tag = "#text" /\ i + 1 <= Len(lines)
                              /\ NextLineOpensBlock(lines[i + 1])
                           THEN <<BlankLine>>
                           ELSE <<>>)
                  \o ProcessedLines(lines, i + 1)

\* re.sub(r'\n\s*\n\s*\n+', '\n\n', result): blank lines in a row become one
RECURSIVE CollapseBlanks(_)
CollapseBlanks(lines) ==
    IF Len(lines) < 2
    THEN lines
    ELSE IF IsBlank(lines[1]) /\ IsBlank(lines[2])
         THEN CollapseBlanks(Tail(lines))
         ELSE <<Head(lines)>> \o CollapseBlanks(Tail(lines))

post_process_content(lines) ==
    StripLines(CollapseBlanks(ProcessedLines(lines, 1)))

\* ---- the Normalizer's output read as a container again: the text
\* between two elements, line breaks included, is one NavigableString ----
HasText(run) ==
    \E k \in 1 .. Len(run) : run[k] # ""

RECURSIVE ParseLines(_, _, _, _)
ParseLines(lines, i, run, after_element) ==
    LET before == IF after_element THEN <<"">> ELSE <<>>
    IN  IF i > Len(lines)
        THEN IF HasText(run)
             THEN <<NavigableString(before \o run)>>
             ELSE <<>>
        ELSE IF lines[i].tag = "#text"
             THEN ParseLines(lines, i + 1, run \o lines[i].text,
                             after_element)
             ELSE (IF HasText(run)
                   THEN <<NavigableString(before \o run \o <<"">>)>>
                   ELSE <<>>)
                  \o <<lines[i]>>
                  \o ParseLines(lines, i + 1, <<>>, TRUE)

\* ---- the steps of one run of the Normalizer ----
\* lines 247-254, and figures = content_copy.find_all('figure')
RemoveUnwanted ==
    /\ nm_pc = "unwanted"
    /\ content_copy' = Decompose(content_copy)
    /\ figures' = find_all_figure(content_copy')
    /\ fig_i' = 0
    /\ nm_pc' = "figures"
    /\ UNCHANGED <<nm_run, article_container, rewrites, content,
                   clean_content, first_output>>
    /\ UNCHANGED <<coordVars, imgVars, fetchVars, renderVars, sinkVars, auxVars>>

\* one iteration of `for i, figure in enumerate(figures)`
ProcessFigure ==
    /\ nm_pc = "figures"
    /\ fig_i < Len(figures)
    /\ LET figure == figures[fig_i + 1]
       IN  content_copy' = Splice(content_copy,
                                  PositionOf(content_copy, figure),
                                  Restructured(fig_i, figure))
    /\ fig_i' = fig_i + 1
    /\ UNCHANGED <<nm_pc, nm_run, article_container, figures, rewrites,
                   content, clean_content, first_output>>
    /\ UNCHANGED <<coordVars, imgVars, fetchVars, renderVars, sinkVars, auxVars>>

\* lines 284-297, after the last figure
SimplifyOtherTags ==
    /\ nm_pc = "figures"
    /\ fig_i = Len(figures)
    /\ content_copy' = SimplifyTags(content_copy)
    /\ nm_pc' = "unwrap"
    /\ UNCHANGED <<nm_run, article_container, figures, fig_i, rewrites,
                   content, clean_content, first_output>>
    /\ UNCHANGED <<coordVars, imgVars, fetchVars, renderVars, sinkVars, auxVars>>

\* lines 299-303
Unwrap ==
    /\ nm_pc = "unwrap"
    /\ content_copy' = UnwrapDivs(content_copy)
    /\ nm_pc' = "images"
    /\ UNCHANGED <<nm_run, article_container, figures, fig_i, rewrites,
                   content, clean_content, first_output>>
    /\ UNCHANGED <<coordVars, imgVars, fetchVars, renderVars, sinkVars, auxVars>>

\* lines 305-309: every image with a src is sent to the API once, and the
\* API answers each call as it likes
CompressImages ==
    /\ nm_pc = "images"
    /\ LET paths == ImgPaths(content_copy)
       IN  \E answers \in [1 .. Len(paths) -> RewriteAnswers] :
               /\ content_copy' = Rewritten(content_copy, paths, answers, 1)
               /\ rewrites' =
                      rewrites
                      \o SelectSeq([k \in 1 .. Len(paths) |->
                                       <<NodeAt(content_copy, paths[k]).src,
                                         answers[k]>>],
                                   LAMBDA call : call[1] # <<>>)
    /\ nm_pc' = "build"
    /\ UNCHANGED <<nm_run, article_container, figures, fig_i, content,
                   clean_content, first_output>>
    /\ UNCHANGED <<coordVars, imgVars, fetchVars, renderVars, sinkVars, auxVars>>

\* lines 311-329: return content_html.strip()
BuildContent ==
    /\ nm_pc = "build"
    /\ content' = StripLines(BuildLines(content_copy))
    /\ nm_pc' = "post_process"
    /\ UNCHANGED <<nm_run, article_container, content_copy, figures, fig_i,
                   rewrites, clean_content, first_output>>
    /\ UNCHANGED <<coordVars, imgVars, fetchVars, renderVars, sinkVars, auxVars>>

\* clean_content = self._post_process_content(article_data['content'])
PostProcess ==
    /\ nm_pc = "post_process"
    /\ clean_content' = post_process_content(content)
    /\ first_output' = IF nm_run = 1 THEN clean_content' ELSE first_output
    /\ nm_pc' = "returned"
    /\ UNCHANGED <<nm_run, article_container, content_copy, figures, fig_i,
                   rewrites, content>>
    /\ UNCHANGED <<coordVars, imgVars, fetchVars, renderVars, sinkVars, auxVars>>

\* the Normalizer is run again, its output being the content container
NormalizeAgain ==
    /\ nm_pc = "returned"
    /\ nm_run = 1
    /\ nm_run' = 2
    /\ article_container' = ParseLines(clean_content, 1, <<>>, FALSE)
    /\ content_copy' = article_container'
    /\ figures' = <<>>
    /\ fig_i' = 0
    /\ rewrites' = <<>>
    /\ content' = <<>>
    /\ clean_content' = <<>>
    /\ nm_pc' = "unwanted"
    /\ UNCHANGED first_output
    /\ UNCHANGED <<coordVars, imgVars, fetchVars, renderVars, sinkVars, auxVars>>

InitNorm ==
    /\ RunIdle
    /\ ImgIdle
    /\ FetchIdle
    /\ RenderIdle
    /\ SinkIdle
    /\ AuxIdle
    /\ nm_pc = "unwanted"
    /\ nm_run = 1
    /\ \E n \in 0 .. MaxNodes :
           \E kinds \in [1 .. n -> BlockKinds] :
               article_container = [i \in 1 .. n |-> BlockOfKind(kinds[i], i)]
    /\ content_copy = article_container
    /\ figures = <<>>
    /\ fig_i = 0
    /\ rewrites = <<>>
    /\ content = <<>>
    /\ clean_content = <<>>
    /\ first_output = <<>>

NextNorm ==
    \/ RemoveUnwanted
    \/ ProcessFigure
    \/ SimplifyOtherTags
    \/ Unwrap
    \/ CompressImages
    \/ BuildContent
    \/ PostProcess
    \/ NormalizeAgain

SpecNorm == InitNorm /\ [][NextNorm]_vars


(***************************************************************************)
(* The Renderer: generate_meta_tags (353-359), create_clean_html_for_file  *)
(* (361-411) and the store rendering built by scrape_article (421-458).    *)
(* A rendering is a sequence of lines; a line is a node, written as by     *)
(* the Normalizer, or blank.                                               *)
(***************************************************************************)
\* `if article_data[key]:` and `if article_data.get(key):`
Truthy(v) ==
    v # "" /\ v # None

TitleTag(v) ==
    Element("title", {}, {}, <<v>>, <<>>)

\* <meta name="..." content="...">
MetaName(name, v) ==
    Element("meta", {"name", "content"}, {}, <<name, v>>, <<>>)

\* <meta property="..." content="...">
MetaProperty(prop, v) ==
    Element("meta", {"property", "content"}, {}, <<prop, v>>, <<>>)

H1(v) ==
    Element("h1", {}, {}, <<v>>, <<>>)

Paragraph(v) ==
    Element("p", {}, {}, <<v>>, <<>>)

tag_map ==
    << <<"ld_date_published", "article:published_time">>,
       <<"ld_date_modified", "article:modified_time">>,
       <<"ld_author_name", "article:author">>,
       <<"ld_publisher_name", "article:publisher">> >>

RECURSIVE MetaTagsFrom(_, _)
MetaTagsFrom(a, k) ==
    IF k > Len(tag_map)
    THEN <<>>
    ELSE (IF Truthy(a[tag_map[k][1]])
          THEN <<MetaProperty(tag_map[k][2], a[tag_map[k][1]])>>
          ELSE <<>>)
         \o MetaTagsFrom(a, k + 1)

generate_meta_tags(a) ==
    MetaTagsFrom(a, 1)

\* lines 367-379: the directive lines of the file rendering
MetaParts(a) ==
    (IF Truthy(a.title) THEN <<TitleTag(a.title)>> ELSE <<>>)
    \o (IF Truthy(a.meta_description)
        THEN <<MetaName("description", a.meta_description)>> ELSE <<>>)
    \o (IF Truthy(a.meta_keywords)
        THEN <<MetaName("keywords", a.meta_keywords)>> ELSE <<>>)
    \o (IF Truthy(a.meta_tag)
        THEN <<MetaName("tags", a.meta_tag)>> ELSE <<>>)
    \o generate_meta_tags(a)

\* re.search(r'<img [^>]*/>', text): the path of the leftmost image tag
\* that carries an attribute, <<>> when there is none
first_img_match(lines) ==
    LET paths == SelectSeq(ImgPaths(lines),
                           LAMBDA path : NodeAt(lines, path).attrs # {})
    IN  IF paths = <<>> THEN <<>> ELSE paths[1]

\* Faulty variant: the cover is added and stays in the content as well.
ReplaceFirst_keepsCover(lines, cover) ==
    StripLines(lines)

\* text.replace(cover, '', 1).strip(): the first piece of text equal to
\* the cover goes; a line that was the image alone is left empty
ReplaceFirst(lines, cover) ==
    LET paths == SelectSeq(ImgPaths(lines),
                           LAMBDA path : NodeAt(lines, path) = cover)
        path == paths[1]
    IN  StripLines(
            IF Len(path) = 1
            THEN [lines EXCEPT ![path[1]] = BlankLine]
            ELSE [lines EXCEPT
                     ![path[1]].kids = SubSeq(@, 1, path[2] - 1)
                                       \o SubSeq(@, path[2] + 1, Len(@))])

\* lines 403-407 and 449-454: every line that is not blank, and a blank
\* line after it unless it ends with </li>
RECURSIVE SpacedLines(_)
SpacedLines(lines) ==
    IF lines = <<>>
    THEN <<>>
    ELSE IF IsBlank(Head(lines))
         THEN SpacedLines(Tail(lines))
         ELSE <<Head(lines)>>
              \o (IF Head(lines).tag = "li" THEN <<>> ELSE <<BlankLine>>)
              \o SpacedLines(Tail(lines))

\* lines 383-407 and 426-454: cover, title heading, description, the rest
BodyParts(a) ==
    LET clean == post_process_content(a.content)
        match == first_img_match(clean)
        cover == NodeAt(clean, match)
    IN  (IF match # <<>> THEN <<cover, BlankLine>> ELSE <<>>)
        \o (IF Truthy(a.title) THEN <<H1(a.title), BlankLine>> ELSE <<>>)
        \o (IF Truthy(a.description)
            THEN <<Paragraph(a.description), BlankLine>> ELSE <<>>)
        \o (IF clean # <<>>
            THEN SpacedLines(IF match # <<>>
                             THEN ReplaceFirst(clean, cover)
                             ELSE clean)
            ELSE <<>>)

\* Faulty variant: the title heading is put before the directive lines.
create_clean_html_for_file_headingFirst(a) ==
    StripLines(CollapseBlanks(
        (IF Truthy(a.title) THEN <<H1(a.title), BlankLine>> ELSE <<>>)
        \o MetaParts(a) \o <<BlankLine>> \o BodyParts(a)))

create_clean_html_for_file(a) ==
    StripLines(CollapseBlanks(MetaParts(a) \o <<BlankLine>> \o BodyParts(a)))

\* Faulty variant: the store rendering carries the JSON-LD directives.
RenderForDb_withDirectives(a) ==
    CollapseBlanks(StripLines(generate_meta_tags(a) \o <<BlankLine>>
                              \o BodyParts(a)))

\* content_for_db of scrape_article, lines 423-458
RenderForDb(a) ==
    CollapseBlanks(StripLines(BodyParts(a)))

\* ---- one call of scrape_article after the extraction ----
\* the lines the content of an article may hold at position i
LineKinds == {"img", "p", "p_img", "p_bare_img", "text", "li"}

LineOfKind(kind, i) ==
    CASE kind = "img" -> BareImage(PageImage(i))
      [] kind = "p" -> Paragraph(TxtOf(i))
      [] kind = "p_img" -> Element("p", {}, {}, <<>>, <<PageImage(i)>>)
      [] kind = "p_bare_img" ->
             Element("p", {}, {}, <<>>, <<Image({}, <<>>, <<>>)>>)
      [] kind = "text" -> NavigableString(<<TxtOf(i)>>)
      [] kind = "li" -> Element("li", {}, {}, <<TxtOf(i)>>, <<>>)

\* full_html_for_file = self.create_clean_html_for_file(article_data)
CreateCleanHtmlForFile ==
    /\ rd_pc = "file"
    /\ full_html_for_file' = create_clean_html_for_file(article)
    /\ rd_pc' = "db"
    /\ UNCHANGED <<article, content_db>>
    /\ UNCHANGED <<coordVars, imgVars, fetchVars, normVars, sinkVars, auxVars>>

\* lines 423-458
BuildContentForDb ==
    /\ rd_pc = "db"
    /\ content_db' = RenderForDb(article)
    /\ rd_pc' = "returned"
    /\ UNCHANGED <<article, full_html_for_file>>
    /\ UNCHANGED <<coordVars, imgVars, fetchVars, normVars, sinkVars, auxVars>>

\* the metadata fields a page may fill, in the combinations tried
MetaProfiles ==
    {{}, {"meta_description"}, {"meta_keywords", "meta_tag"},
     {"meta_description", "meta_keywords", "meta_tag"}}

\* the fields a NewsArticle block of the page may fill
LdProfiles ==
    {{}, {"ld_author_name"}, {"ld_date_published", "ld_publisher_name"},
     {"ld_date_published", "ld_date_modified", "ld_author_name",
      "ld_publisher_name"}}

\* article_data as extract_article_content leaves it: '' for a text field
\* the page does not fill, None for a field of the NewsArticle block
ExtractedArticle(filled, lines) ==
    [title |-> IF "title" \in filled THEN "T" ELSE "",
     description |-> IF "description" \in filled THEN "D" ELSE "",
     meta_description |-> IF "meta_description" \in filled THEN "md" ELSE "",
     meta_keywords |-> IF "meta_keywords" \in filled THEN "mk" ELSE "",
     meta_tag |-> IF "meta_tag" \in filled THEN "mt" ELSE "",
     ld_date_published |->
         IF "ld_date_published" \in filled THEN "dp" ELSE None,
     ld_date_modified |->
         IF "ld_date_modified" \in filled THEN "dm" ELSE None,
     ld_author_name |-> IF "ld_author_name" \in filled THEN "an" ELSE None,
     ld_publisher_name |->
         IF "ld_publisher_name" \in filled THEN "pn" ELSE None,
     content |-> lines]

InitRender ==
    /\ RunIdle
    /\ ImgIdle
    /\ FetchIdle
    /\ NormIdle
    /\ SinkIdle
    /\ AuxIdle
    /\ rd_pc = "file"
    /\ \E n \in 0 .. MaxNodes :
           \E kinds \in [1 .. n -> LineKinds] :
               \E head \in SUBSET {"title", "description"} :
                   \E meta \in MetaProfiles :
                       \E ld \in LdProfiles :
                           article =
                               ExtractedArticle(
                                   head \cup meta \cup ld,
                                   [i \in 1 .. n |->
                                       LineOfKind(kinds[i], i)])
    /\ full_html_for_file = <<>>
    /\ content_db = <<>>

NextRender ==
    \/ CreateCleanHtmlForFile
    \/ BuildContentForDb

SpecRender == InitRender /\ [][NextRender]_vars


(***************************************************************************)
(* The file sink: _save_html_to_file (lines 164-177), called by            *)
(* process_single_url (lines 55-61) once for every task whose scrape gave  *)
(* a result.  A URL is the sequence of its characters; output_html holds   *)
(* one entry per write, the name of the file and the task that wrote it.   *)
(***************************************************************************)
MaxSinkUrls == 2

\* the addresses a list of URLs may hold here
SinkUrls ==
    { <<"h", ":", "/", "/", "w", "/", "a", "/", "b">>,
      <<"h", ":", "/", "/", "w", "/", "a", "_", "b">>,
      <<"h", ":", "/", "/", "w", "/", "a", "/", "b", "?", "q">>,
      <<"h", ":", "/", "/", "w", "/", "a", "/", "b", "/">>,
      <<"h", ":", "/", "/", "w", "/", "c", ".", "d">>,
      <<"h", ":", "/", "/", "w", "/", "c", "-", "d">>,
      <<"h", ":", "/", "/", "w">> }

\* the characters of s from the first one found in stops on
RECURSIVE From(_, _)
From(s, stops) ==
    IF s = <<>> \/ Head(s) \in stops THEN s ELSE From(Tail(s), stops)

\* the characters of s before the first one found in stops
RECURSIVE Before(_, _)
Before(s, stops) ==
    IF s = <<>> \/ Head(s) \in stops
    THEN <<>>
    ELSE <<Head(s)>> \o Before(Tail(s), stops)

\* urlparse(url).path for scheme://netloc/path?query#fragment: what stands
\* after the network location, up to the query or the fragment
UrlPath(url) ==
    LET after_scheme == Tail(From(url, {":"}))
        after_netloc == From(SubSeq(after_scheme, 3, Len(after_scheme)),
                             {"/", "?", "#"})
    IN  Before(after_netloc, {"?", "#"})

\* str.replace(old, new)
Replace(s, old, new) ==
    [k \in 1 .. Len(s) |-> IF s[k] = old THEN new ELSE s[k]]

\* str.strip(c)
RECURSIVE StripChar(_, _)
StripChar(s, c) ==
    IF s = <<>>
    THEN <<>>
    ELSE IF Head(s) = c
         THEN StripChar(Tail(s), c)
         ELSE IF s[Len(s)] = c
              THEN StripChar(SubSeq(s, 1, Len(s) - 1), c)
              ELSE s

DotHtml == <<".", "h", "t", "m", "l">>

\* str.endswith(suffix)
EndsWith(s, suffix) ==
    /\ Len(s) >= Len(suffix)
    /\ SubSeq(s, Len(s) - Len(suffix) + 1, Len(s)) = suffix

\* lines 168-171
FileName(url) ==
    LET filename ==
            StripChar(Replace(Replace(UrlPath(url), "/", "_"), ".", "-"), "_")
            \o DotHtml
    IN  IF ~EndsWith(filename, DotHtml) THEN filename \o DotHtml ELSE filename

SinkTasks == DOMAIN sink_urls

\* the tasks that are past lines 55-61, with what scrape_article gave them
SinkDone == {d.task : d \in sink_done}

\* scraper._save_html_to_file(url, full_html): the file is written, or an
\* exception of mkdir, open or write is logged and nothing is written
SaveHtmlToFile(k) ==
    /\ k \in SinkTasks \ SinkDone
    /\ \E written \in BOOLEAN :
           output_html' =
               IF written
               THEN output_html
                    \cup {[path |-> FileName(sink_urls[k]), task |-> k]}
               ELSE output_html
    /\ sink_done' = sink_done \cup {[task |-> k, scraped |-> TRUE]}
    /\ UNCHANGED sink_urls
    /\ UNCHANGED <<coordVars, imgVars, fetchVars, normVars, renderVars, auxVars>>

\* process_single_url, lines 60-61: no scrape result, no file
NoScrapeResult(k) ==
    /\ k \in SinkTasks \ SinkDone
    /\ sink_done' = sink_done \cup {[task |-> k, scraped |-> FALSE]}
    /\ UNCHANGED <<sink_urls, output_html>>
    /\ UNCHANGED <<coordVars, imgVars, fetchVars, normVars, renderVars, auxVars>>

\* the tasks of one run: one per element of urls_to_scrape
InitSink ==
    /\ RunIdle
    /\ ImgIdle
    /\ FetchIdle
    /\ NormIdle
    /\ RenderIdle
    /\ AuxIdle
    /\ sink_urls \in UNION {[1 .. n -> SinkUrls] : n \in 0 .. MaxSinkUrls}
    /\ sink_done = {}
    /\ output_html = {}

NextSink ==
    \/ \E k \in SinkTasks : SaveHtmlToFile(k)
    \/ \E k \in SinkTasks : NoScrapeResult(k)

\* the files the tasks of one run write
SpecSink == InitSink /\ [][NextSink]_vars

(***************************************************************************)
(* The resources of a worker: process_single_url (lines 45-65) with the    *)
(* TrstdlyScraper it builds (lines 50-64 of the scraper: the session and   *)
(* self.conn = None) and _save_to_db (lines 115-162).  A task's record     *)
(* holds its stage, its status and the state of its session and of its     *)
(* Store connection: "none", "open" or "closed".                           *)
(***************************************************************************)
MaxConnTasks == 2

NewWorker ==
    [stage |-> "Pending", status |-> None, session |-> "none",
     conn |-> "none"]

Workers == DOMAIN scraper

\* scraper = TrstdlyScraper(): requests.Session() is built, self.conn = None
CreateScraper(k) ==
    /\ scraper[k].stage = "Pending"
    /\ scraper' = [scraper EXCEPT ![k].stage = "Scraping",
                                  ![k].session = "open"]
    /\ UNCHANGED <<coordVars, imgVars, fetchVars, contentVars, ldVars,
                   feedVars, scrubVars, truncVars, postVars>>

\* lines 53-65: scrape_article gives a result, gives None or raises
ScrapeArticle(k) ==
    /\ scraper[k].stage = "Scraping"
    /\ \E outcome \in {"result", "none", "exception"} :
           scraper' =
               CASE outcome = "result" ->
                        [scraper EXCEPT ![k].stage = "Saving"]
                 [] outcome = "none" ->
                        [scraper EXCEPT ![k].stage = "Failed",
                                        ![k].status = StatusNoScrape]
                 [] outcome = "exception" ->
                        [scraper EXCEPT ![k].stage = "Failed",
                                        ![k].status = StatusCritical]
    /\ UNCHANGED <<coordVars, imgVars, fetchVars, contentVars, ldVars,
                   feedVars, scrubVars, truncVars, postVars>>

\* self.conn after _save_to_db: _connect_db opens it unless connect
\* raises OperationalError, and no path of lines 115-162 closes it
ConnAfterSave(outcome) ==
    IF outcome = "no_connection" THEN "none" ELSE "open"

\* _save_html_to_file, then _save_to_db, lines 57-59 and 115-162
SaveToDb(k) ==
    /\ scraper[k].stage = "Saving"
    /\ \E outcome \in {"saved", "no_connection", "db_error", "exception"} :
           scraper' =
               [scraper EXCEPT
                   ![k].conn = ConnAfterSave(outcome),
                   ![k].stage = IF outcome = "saved"
                                THEN "Succeeded" ELSE "Failed",
                   ![k].status =
                       CASE outcome = "saved" -> StatusSaved
                         [] outcome = "no_connection" -> StatusNoConnection
                         [] outcome = "db_error" -> StatusDbError
                         [] outcome = "exception" -> StatusCritical]
    /\ UNCHANGED <<coordVars, imgVars, fetchVars, contentVars, ldVars,
                   feedVars, scrubVars, truncVars, postVars>>

\* no statement releases the session or the connection; once
\* process_single_url has returned the scraper object is unreachable, and
\* the interpreter closes what it holds when it reclaims the object
ReclaimScraper(k) ==
    /\ scraper[k].stage \in TerminalStages
    /\ "open" \in {scraper[k].session, scraper[k].conn}
    /\ scraper' =
           [scraper EXCEPT
               ![k].session = "closed",
               ![k].conn = IF @ = "open" THEN "closed" ELSE @]
    /\ UNCHANGED <<coordVars, imgVars, fetchVars, contentVars, ldVars,
                   feedVars, scrubVars, truncVars, postVars>>

InitConn ==
    /\ RunIdle
    /\ ImgIdle
    /\ FetchIdle
    /\ ContentIdle
    /\ LdIdle
    /\ FeedIdle
    /\ ScrubIdle
    /\ TruncIdle
    /\ PostIdle
    /\ \E n \in 0 .. MaxConnTasks : scraper = [k \in 1 .. n |-> NewWorker]

NextConn ==
    \/ \E k \in Workers : CreateScraper(k)
    \/ \E k \in Workers : ScrapeArticle(k)
    \/ \E k \in Workers : SaveToDb(k)
    \/ \E k \in Workers : ReclaimScraper(k)

\* the workers of one run and what they hold
SpecConn == InitConn /\ [][NextConn]_vars

(***************************************************************************)
(* StructuredMeta: the LD+JSON part of extract_article_content (lines      *)
(* 196-202 and 214-236).  The script is what soup.find gives: no script,   *)
(* a text json.loads rejects, or the parsed value, a list of items or one  *)
(* item.  An item is a dict or some other JSON value; the author and the   *)
(* publisher of a dict are absent, a dict or some other JSON value.        *)
(***************************************************************************)
MaxItems == 2

\* lines 198-201: the seven fields as article_data starts with them
NoStructuredMeta ==
    [ld_type |-> None, ld_date_created |-> None, ld_date_published |-> None,
     ld_date_modified |-> None, ld_author_name |-> None,
     ld_publisher_name |-> None, ld_publisher_url |-> None]

Item(type, author, publisher) ==
    [json |-> "object", type |-> type, dateCreated |-> "dc",
     datePublished |-> "dp", dateModified |-> "dm", author |-> author,
     publisher |-> publisher]

\* the items a structured-data block may hold
Items ==
    { Item("NewsArticle", "object", "object"),
      Item("NewsArticle", "absent", "absent"),
      Item("NewsArticle", "array", "object"),
      Item("NewsArticle", "object", "string"),
      Item("WebPage", "object", "object"),
      [json |-> "string"] }

\* what soup.find('script', type='application/ld+json') and json.loads of
\* its text may give
Scripts ==
    {[kind |-> "no_script"], [kind |-> "not_json"]}
    \cup {[kind |-> "object", items |-> <<i>>] : i \in Items}
    \cup {[kind |-> "array", items |-> l] :
             l \in UNION {[1 .. n -> Items] : n \in 0 .. MaxItems}}

\* item.get(key, {}).get('name') and .get('url'): the value is taken from
\* a dict, is None for a missing key, and .get raises AttributeError on
\* any other JSON value
Raises(value) ==
    value \in {"array", "string"}

NameOf(value, name) ==
    IF value = "object" THEN name ELSE None

\* the assignments of lines 223-229, in order, up to the first that raises
Assigned(fields, item) ==
    LET dates == [fields EXCEPT
                     !.ld_type = item.type,
                     !.ld_date_created = item.dateCreated,
                     !.ld_date_published = item.datePublished,
                     !.ld_date_modified = item.dateModified]
    IN  IF Raises(item.author)
        THEN dates
        ELSE IF Raises(item.publisher)
             THEN [dates EXCEPT
                      !.ld_author_name = NameOf(item.author, "an")]
             ELSE [dates EXCEPT
                      !.ld_author_name = NameOf(item.author, "an"),
                      !.ld_publisher_name = NameOf(item.publisher, "pn"),
                      !.ld_publisher_url = NameOf(item.publisher, "pu")]

\* lines 214-215 and 235-236
FindScript ==
    /\ ld_pc = "find"
    /\ ld_pc' = IF ld_json_script.kind = "no_script" THEN "return"
                ELSE "loads"
    /\ UNCHANGED <<ld_json_script, ld_item, ld_raised, article_ld>>
    /\ UNCHANGED <<coordVars, imgVars, fetchVars, contentVars, connVars,
                   feedVars, scrubVars, truncVars, postVars>>

\* lines 217-218, and 231-232 when json.loads raises
LoadJson ==
    /\ ld_pc = "loads"
    /\ IF ld_json_script.kind = "not_json"
       THEN /\ ld_raised' = "JSONDecodeError"
            /\ ld_pc' = "return"
            /\ UNCHANGED ld_item
       ELSE /\ ld_item' = 1
            /\ ld_pc' = "for"
            /\ UNCHANGED ld_raised
    /\ UNCHANGED <<ld_json_script, article_ld>>
    /\ UNCHANGED <<coordVars, imgVars, fetchVars, contentVars, connVars,
                   feedVars, scrubVars, truncVars, postVars>>

\* one iteration of `for item in data_list`, lines 219-230, with the
\* except clause of lines 231-232 when it raises
ReadItem ==
    /\ ld_pc = "for"
    /\ IF ld_item > Len(ld_json_script.items)
       THEN /\ ld_pc' = "return"
            /\ UNCHANGED <<ld_item, ld_raised, article_ld>>
       ELSE LET item == ld_json_script.items[ld_item]
            IN  IF item.json # "object"
                THEN /\ ld_raised' = "AttributeError"
                     /\ ld_pc' = "return"
                     /\ UNCHANGED <<ld_item, article_ld>>
                ELSE IF item.type # "NewsArticle"
                     THEN /\ ld_item' = ld_item + 1
                          /\ UNCHANGED <<ld_pc, ld_raised, article_ld>>
                     ELSE /\ article_ld' = Assigned(article_ld, item)
                          /\ ld_raised' =
                                 IF Raises(item.author)
                                    \/ Raises(item.publisher)
                                 THEN "AttributeError" ELSE ld_raised
                          /\ ld_pc' = "return"
                          /\ UNCHANGED ld_item
    /\ UNCHANGED ld_json_script
    /\ UNCHANGED <<coordVars, imgVars, fetchVars, contentVars, connVars,
                   feedVars, scrubVars, truncVars, postVars>>

\* lines 237-239: the content is extracted and article_data returned
ReturnArticleData ==
    /\ ld_pc = "return"
    /\ ld_pc' = "returned"
    /\ UNCHANGED <<ld_json_script, ld_item, ld_raised, article_ld>>
    /\ UNCHANGED <<coordVars, imgVars, fetchVars, contentVars, connVars,
                   feedVars, scrubVars, truncVars, postVars>>

InitLd ==
    /\ RunIdle
    /\ ImgIdle
    /\ FetchIdle
    /\ ContentIdle
    /\ ConnIdle
    /\ FeedIdle
    /\ ScrubIdle
    /\ TruncIdle
    /\ PostIdle
    /\ ld_pc = "find"
    /\ ld_json_script \in Scripts
    /\ ld_item = 0
    /\ ld_raised = None
    /\ article_ld = NoStructuredMeta

NextLd ==
    \/ FindScript
    \/ LoadJson
    \/ ReadItem
    \/ ReturnArticleData

\* one call of extract_article_content, the StructuredMeta part
SpecLd == InitLd /\ [][NextLd]_vars

(***************************************************************************)
(* The feed export: convert_json_to_wordpress_xml (lines 423-482 of        *)
(* xtml_modifate.py).  A part of xml_parts is recorded by its kind; an     *)
(* item by the article it was generated from and its wp:post_id.           *)
(***************************************************************************)
\* the articles a batch may hold, told apart by their url
ArticleUrls == {"u1", "u2", "u3"}

\* Faulty variant: the identifiers count from one.
post_id_fromOne(index) ==
    40670 + index + 1

\* line 449: the identifier of the article at position index, from 0
post_id(index) ==
    40670 + index

\* generate_article_item(article, post_id), lines 350-410: the link and
\* the wp:post_id of the item
generate_article_item(a, id) ==
    [kind |-> "item", url |-> a.url, post_id |-> id]

HeaderParts ==
    <<[kind |-> "xml_header"], [kind |-> "channel_info"],
      [kind |-> "author"], [kind |-> "category"], [kind |-> "generator"]>>

\* lines 438-445
AppendHeader ==
    /\ feed_pc = "header"
    /\ xml_parts' = xml_parts \o HeaderParts
    /\ feed_index' = 0
    /\ feed_pc' = "for"
    /\ UNCHANGED articles
    /\ UNCHANGED <<coordVars, imgVars, fetchVars, contentVars, connVars,
                   ldVars, scrubVars, truncVars, postVars>>

\* one iteration of the loop of lines 448-450
AppendItem ==
    /\ feed_pc = "for"
    /\ feed_index < Len(articles)
    /\ xml_parts' =
           Append(xml_parts,
                  generate_article_item(articles[feed_index + 1],
                                        post_id(feed_index)))
    /\ feed_index' = feed_index + 1
    /\ UNCHANGED <<feed_pc, articles>>
    /\ UNCHANGED <<coordVars, imgVars, fetchVars, contentVars, connVars,
                   ldVars, scrubVars, truncVars, postVars>>

\* lines 452-463: the footer is appended and the file written
AppendFooter ==
    /\ feed_pc = "for"
    /\ feed_index = Len(articles)
    /\ xml_parts' = Append(xml_parts, [kind |-> "xml_footer"])
    /\ feed_pc' = "written"
    /\ UNCHANGED <<articles, feed_index>>
    /\ UNCHANGED <<coordVars, imgVars, fetchVars, contentVars, connVars,
                   ldVars, scrubVars, truncVars, postVars>>

InitFeed ==
    /\ RunIdle
    /\ ImgIdle
    /\ FetchIdle
    /\ ContentIdle
    /\ ConnIdle
    /\ LdIdle
    /\ ScrubIdle
    /\ TruncIdle
    /\ PostIdle
    /\ feed_pc = "header"
    /\ \E n \in 0 .. MaxBatch :
           \E batch \in [1 .. n -> ArticleUrls] :
               articles = [i \in 1 .. n |-> [url |-> batch[i]]]
    /\ feed_index = 0
    /\ xml_parts = <<>>

NextFeed ==
    \/ AppendHeader
    \/ AppendItem
    \/ AppendFooter

\* one call of convert_json_to_wordpress_xml
SpecFeed == InitFeed /\ [][NextFeed]_vars

(***************************************************************************)
(* The feed export: remove_trstdly_references (lines 187-205 of            *)
(* xtml_modifate.py), called by process_content (lines 263-266) on the     *)
(* remaining body.  A text is the sequence of its characters.              *)
(***************************************************************************)
Reference == <<"t", "r", "s", "t", "d", "l", "y", ".", "c", "o", "m">>

\* the pieces a body is made of here
Pieces ==
    { Reference,
      <<"T", "r", "s", "t", "d", "l", "y", ".", "C", "O", "M">>,
      <<"t", "r", "s", "t">>,
      <<"d", "l", "y", ".", "c", "o", "m">>,
      <<"@", " ", "2", "0", "2", "4", " ">>,
      <<" ", "(c)", "2", "0", "2", "4">>,
      <<" ">>,
      <<"x">> }

RECURSIVE Concat(_)
Concat(pieces) ==
    IF pieces = <<>> THEN <<>> ELSE Head(pieces) \o Concat(Tail(pieces))

\* flags=re.IGNORECASE, for the letters a body holds here
Lower(c) ==
    CASE c = "T" -> "t"
      [] c = "C" -> "c"
      [] c = "O" -> "o"
      [] c = "M" -> "m"
      [] OTHER -> c

IsDigit(c) ==
    c \in {"0", "1", "2", "3", "4", "5", "6", "7", "8", "9"}

\* the pattern trstdly\.com matches at position i
ReferenceAt(text, i) ==
    /\ i + Len(Reference) - 1 <= Len(text)
    /\ \A k \in 1 .. Len(Reference) : Lower(text[i + k - 1]) = Reference[k]

\* \s*: the first position from i on that holds no whitespace
RECURSIVE SkipSpaces(_, _)
SkipSpaces(text, i) ==
    IF i <= Len(text) /\ text[i] = SP THEN SkipSpaces(text, i + 1) ELSE i

\* the position after a match of \s*<sign>\s*\d{4}\s*trstdly\.com that
\* begins at i, or 0 when the pattern does not match there
DatedReferenceEnd(text, i, sign) ==
    LET at_sign == SkipSpaces(text, i)
        at_year == SkipSpaces(text, at_sign + 1)
        at_ref == SkipSpaces(text, at_year + 4)
    IN  IF /\ at_sign <= Len(text)
           /\ text[at_sign] = sign
           /\ at_year + 3 <= Len(text)
           /\ \A k \in 0 .. 3 : IsDigit(text[at_year + k])
           /\ ReferenceAt(text, at_ref)
        THEN at_ref + Len(Reference)
        ELSE 0

\* re.sub(pattern, '', text): one pass from the left, the matches found
\* do not overlap, and what a removal joins together is not looked at again
RECURSIVE SubDatedReference(_, _, _)
SubDatedReference(text, i, sign) ==
    IF i > Len(text)
    THEN <<>>
    ELSE IF DatedReferenceEnd(text, i, sign) # 0
         THEN SubDatedReference(text, DatedReferenceEnd(text, i, sign), sign)
         ELSE <<text[i]>> \o SubDatedReference(text, i + 1, sign)

RECURSIVE SubReference(_, _)
SubReference(text, i) ==
    IF i > Len(text)
    THEN <<>>
    ELSE IF ReferenceAt(text, i)
         THEN SubReference(text, i + Len(Reference))
         ELSE <<text[i]>> \o SubReference(text, i + 1)

\* re.sub(r'\s+', ' ', text)
RECURSIVE CollapseSpaces(_)
CollapseSpaces(text) ==
    IF Len(text) < 2
    THEN text
    ELSE IF text[1] = SP /\ text[2] = SP
         THEN CollapseSpaces(Tail(text))
         ELSE <<Head(text)>> \o CollapseSpaces(Tail(text))

\* process_content, lines 263-266, and lines 196-197: an empty body is
\* not handed over
SkipEmptyBody ==
    /\ sc_pc = "call"
    /\ remaining_content = <<>>
    /\ sc_pc' = "returned"
    /\ UNCHANGED <<remaining_content, scrub_content>>
    /\ UNCHANGED <<coordVars, imgVars, fetchVars, contentVars, connVars,
                   ldVars, feedVars, truncVars, postVars>>

\* lines 199-200: the references that follow @ or the copyright sign and
\* a year
RemoveDatedReferences ==
    /\ sc_pc = "call"
    /\ remaining_content # <<>>
    /\ scrub_content' =
           SubDatedReference(SubDatedReference(remaining_content, 1, "@"),
                             1, "(c)")
    /\ sc_pc' = "references"
    /\ UNCHANGED remaining_content
    /\ UNCHANGED <<coordVars, imgVars, fetchVars, contentVars, connVars,
                   ldVars, feedVars, truncVars, postVars>>

\* line 201
RemoveReferences ==
    /\ sc_pc = "references"
    /\ scrub_content' = SubReference(scrub_content, 1)
    /\ sc_pc' = "spaces"
    /\ UNCHANGED remaining_content
    /\ UNCHANGED <<coordVars, imgVars, fetchVars, contentVars, connVars,
                   ldVars, feedVars, truncVars, postVars>>

\* lines 202-205
CleanUpSpaces ==
    /\ sc_pc = "spaces"
    /\ scrub_content' = Trim(CollapseSpaces(scrub_content))
    /\ sc_pc' = "returned"
    /\ UNCHANGED remaining_content
    /\ UNCHANGED <<coordVars, imgVars, fetchVars, contentVars, connVars,
                   ldVars, feedVars, truncVars, postVars>>

\* get_remaining_content returns its text stripped (lines 162 and 167)
InitScrub ==
    /\ RunIdle
    /\ ImgIdle
    /\ FetchIdle
    /\ ContentIdle
    /\ ConnIdle
    /\ LdIdle
    /\ FeedIdle
    /\ TruncIdle
    /\ PostIdle
    /\ sc_pc = "call"
    /\ \E n \in 0 .. MaxPieces :
           \E pieces \in [1 .. n -> Pieces] :
               remaining_content = Trim(Concat(pieces))
    /\ scrub_content = <<>>

NextScrub ==
    \/ SkipEmptyBody
    \/ RemoveDatedReferences
    \/ RemoveReferences
    \/ CleanUpSpaces

\* one call of remove_trstdly_references from process_content
SpecScrub == InitScrub /\ [][NextScrub]_vars

(***************************************************************************)
(* The feed export: truncate_text_intelligently (lines 10-40 of            *)
(* xtml_modifate.py), which truncate_alt_attributes (lines 43-62) applies  *)
(* to the value of every alt attribute.                                    *)
(***************************************************************************)
TextChars == {"a", " ", ".", "!", "?"}
Terminators == {".", "!", "?"}

\* max(rfind('.'), rfind('!'), rfind('?')) + 1: the position of the last
\* sentence terminator, counted from 1, or 0 when there is none
last_terminator_pos(t) ==
    IF \E i \in 1 .. Len(t) : t[i] \in Terminators
    THEN CHOOSE i \in 1 .. Len(t) :
             /\ t[i] \in Terminators
             /\ \A j \in (i + 1) .. Len(t) : t[j] \notin Terminators
    ELSE 0

\* lines 15-18
EnterTruncate ==
    /\ tr_pc = "if"
    /\ IF Len(tr_text) <= TextLimit
       THEN /\ tr_result' = tr_text
            /\ tr_pc' = "returned"
            /\ UNCHANGED truncated_text
       ELSE /\ truncated_text' = tr_text
            /\ tr_pc' = "while"
            /\ UNCHANGED tr_result
    /\ UNCHANGED <<tr_text, tr_iter>>
    /\ UNCHANGED <<coordVars, imgVars, fetchVars, contentVars, connVars,
                   ldVars, feedVars, scrubVars, postVars>>

\* one iteration of the loop that does not break, lines 20-33
RemoveLastSentence ==
    /\ tr_pc = "while"
    /\ Len(truncated_text) > TextLimit
    /\ last_terminator_pos(truncated_text) # 0
    /\ tr_iter < MaxIterations
    /\ truncated_text' =
           Trim(SubSeq(truncated_text, 1,
                       last_terminator_pos(truncated_text)))
    /\ tr_iter' = tr_iter + 1
    /\ UNCHANGED <<tr_pc, tr_text, tr_result>>
    /\ UNCHANGED <<coordVars, imgVars, fetchVars, contentVars, connVars,
                   ldVars, feedVars, scrubVars, postVars>>

\* the loop ends by its condition or by the break of line 30, and lines
\* 37-40 return
ReturnTruncated ==
    /\ tr_pc = "while"
    /\ \/ Len(truncated_text) <= TextLimit
       \/ last_terminator_pos(truncated_text) = 0
    /\ tr_result' = IF Len(truncated_text) > TextLimit
                    THEN SubSeq(tr_text, 1, TextLimit)
                    ELSE truncated_text
    /\ tr_pc' = "returned"
    /\ UNCHANGED <<tr_text, truncated_text, tr_iter>>
    /\ UNCHANGED <<coordVars, imgVars, fetchVars, contentVars, connVars,
                   ldVars, feedVars, scrubVars, postVars>>

InitTrunc ==
    /\ RunIdle
    /\ ImgIdle
    /\ FetchIdle
    /\ ContentIdle
    /\ ConnIdle
    /\ LdIdle
    /\ FeedIdle
    /\ ScrubIdle
    /\ PostIdle
    /\ tr_pc = "if"
    /\ tr_text \in UNION {[1 .. n -> TextChars] : n \in 0 .. MaxText}
    /\ truncated_text = <<>>
    /\ tr_iter = 0
    /\ tr_result = <<>>

NextTrunc ==
    \/ EnterTruncate
    \/ RemoveLastSentence
    \/ ReturnTruncated

\* one call of truncate_text_intelligently
SpecTrunc == InitTrunc /\ [][NextTrunc]_vars

(***************************************************************************)
(* _post_process_content (lines 331-351) applied to a content text and     *)
(* then to its own result.                                                 *)
(***************************************************************************)
\* the lines a content text may hold at position i
PostLineKinds == {"img", "p", "h2", "text", "blank"}

PostLineOfKind(kind, i) ==
    CASE kind = "img" -> BareImage(PageImage(i))
      [] kind = "p" -> Paragraph(TxtOf(i))
      [] kind = "h2" -> Element("h2", {}, {}, <<TxtOf(i)>>, <<>>)
      [] kind = "text" -> NavigableString(<<TxtOf(i)>>)
      [] kind = "blank" -> BlankLine

ProcessOnce ==
    /\ pp_pc = "call"
    /\ pp_once' = post_process_content(pp_content)
    /\ pp_pc' = "once"
    /\ UNCHANGED <<pp_content, pp_twice>>
    /\ UNCHANGED <<coordVars, imgVars, fetchVars, contentVars, connVars,
                   ldVars, feedVars, scrubVars, truncVars>>

ProcessAgain ==
    /\ pp_pc = "once"
    /\ pp_twice' = post_process_content(pp_once)
    /\ pp_pc' = "twice"
    /\ UNCHANGED <<pp_content, pp_once>>
    /\ UNCHANGED <<coordVars, imgVars, fetchVars, contentVars, connVars,
                   ldVars, feedVars, scrubVars, truncVars>>

InitPost ==
    /\ RunIdle
    /\ ImgIdle
    /\ FetchIdle
    /\ ContentIdle
    /\ ConnIdle
    /\ LdIdle
    /\ FeedIdle
    /\ ScrubIdle
    /\ TruncIdle
    /\ pp_pc = "call"
    /\ \E n \in 0 .. MaxLines :
           \E kinds \in [1 .. n -> PostLineKinds] :
               pp_content = [i \in 1 .. n |-> PostLineOfKind(kinds[i], i)]
    /\ pp_once = <<>>
    /\ pp_twice = <<>>

NextPost ==
    \/ ProcessOnce
    \/ ProcessAgain

\* _post_process_content(_post_process_content(x))
SpecPost == InitPost /\ [][NextPost]_vars

(***************************************************************************)
(* Properties of the coordinator.                                          *)
(***************************************************************************)
\* main() is past the filter of step 3
Filtered == pc \notin {"init_db", "prefetch", "filter"}

\* positions of the input list whose URL is not in the prefetched set
KeptPositions ==
    {i \in 1 .. Len(all_urls) : all_urls[i] \notin existing_urls_set}

\* the rank of input position i among the kept positions
KeptIndex(i) ==
    Cardinality({j \in KeptPositions : j <= i})

\* C1: the candidate list is the input list without the URLs of the
\* prefetched set, in input order: it holds no URL of the prefetched set, the
\* k-th candidate is the URL at the k-th kept input position, there is one
\* future per candidate, and once submission has ended every candidate has
\* been submitted.
C1_CandidatesAreInputMinusPrefetched ==
    Filtered =>
        /\ \A k \in 1 .. Len(urls_to_scrape) :
               urls_to_scrape[k] \notin existing_urls_set
        /\ Len(urls_to_scrape) = Cardinality(KeptPositions)
        /\ \A i \in KeptPositions : urls_to_scrape[KeptIndex(i)] = all_urls[i]
        /\ DOMAIN task = 1 .. Len(urls_to_scrape)
        /\ submitted <= Len(urls_to_scrape)
        /\ pc \in {"collect", "summary", "done"} =>
               submitted = Len(urls_to_scrape)

\* a prefetched URL was removed and two different URLs were kept and submitted
C1_Witness ==
    /\ pc = "collect"
    /\ \E i \in 1 .. Len(all_urls) : all_urls[i] \in existing_urls_set
    /\ Len(urls_to_scrape) = 2
    /\ urls_to_scrape[1] # urls_to_scrape[2]
    /\ submitted = 2

\* C2: the candidate list holds no URL twice, so no two tasks process the
\* same URL.
C2_NoDuplicateCandidates ==
    Filtered =>
        \A j, k \in 1 .. Len(urls_to_scrape) :
            j # k => urls_to_scrape[j] # urls_to_scrape[k]

\* C3: get_existing_urls is called once per run, it has returned before the
\* first submit, and no task sends an existence query of its own.
C3_OnePrefetchBeforeScheduling ==
    /\ n_select <= 1
    /\ pc \in {"init_db", "prefetch"} =>
           /\ n_select = 0
           /\ submitted = 0
           /\ task = <<>>
    /\ Filtered \/ pc = "filter" => n_select = 1

\* the run has ended, two tasks ran and one of them saved its article
C3_Witness ==
    /\ pc = "done"
    /\ Len(urls_to_scrape) >= 2
    /\ \E k \in TaskIds : task[k].stage = "Succeeded"
    /\ \A k \in TaskIds : task[k].stage \in TerminalStages

\* the lifecycle state of the i-th entry of the input list
EntryState(i) ==
    IF ~Filtered
    THEN "Pending"
    ELSE IF all_urls[i] \in existing_urls_set
         THEN "Skipped"
         ELSE task[KeptIndex(i)].stage

\* the transitions the state machine of the specification allows
ClaimedTransitions ==
    {<<"Pending", "Skipped">>, <<"Pending", "Fetching">>,
     <<"Fetching", "Extracting">>, <<"Extracting", "Normalizing">>,
     <<"Normalizing", "Persisting">>, <<"Persisting", "Succeeded">>,
     <<"Persisting", "Failed">>}

\* and those by which a task that fails before Persisting ends
EarlyFailures ==
    {<<"Fetching", "Failed">>, <<"Extracting", "Failed">>,
     <<"Normalizing", "Failed">>}

\* C4 as stated: every change of an entry's state is one of the claimed
\* transitions, so Succeeded and Failed are entered only from Persisting.
C4_OnlyClaimedTransitions ==
    [][\A i \in 1 .. Len(all_urls) :
           EntryState(i)' # EntryState(i) =>
               <<EntryState(i), EntryState(i)'>> \in ClaimedTransitions]_vars

\* C4 as amended: every change of an entry's state is one of the claimed
\* transitions or the failure of a task in Fetching, Extracting or
\* Normalizing; Succeeded is entered only from Persisting, Skipped only from
\* Pending, and Skipped, Succeeded and Failed are never left.
C4_Lifecycle ==
    [][\A i \in 1 .. Len(all_urls) :
           EntryState(i)' # EntryState(i) =>
               <<EntryState(i), EntryState(i)'>>
                   \in ClaimedTransitions \cup EarlyFailures]_vars

\* one entry was skipped, one failed in Fetching and one went through every
\* stage
C4_Witness ==
    /\ Filtered
    /\ \E i \in 1 .. Len(all_urls) : EntryState(i) = "Skipped"
    /\ \E k \in TaskIds : task[k].status = StatusNoScrape
    /\ \E k \in TaskIds : task[k].stage = "Succeeded"

\* C5: never more than MAX_WORKERS tasks are past Pending and not yet
\* terminal, and a future that has not been submitted has not started.
C5_AtMostMaxWorkersRunning ==
    /\ Cardinality(Running) <= MAX_WORKERS
    /\ \A k \in TaskIds : task[k].stage # "Pending" => k <= submitted

\* the pool is full and a submitted future waits in its queue
C5_Witness ==
    /\ Cardinality(Running) = MAX_WORKERS
    /\ Len(urls_to_scrape) > MAX_WORKERS
    /\ \E k \in TaskIds : k <= submitted /\ task[k].stage = "Pending"

\* C6: when the run has collected every future, each submitted task has
\* exactly one recorded outcome, and it is the outcome of its own pipeline.
C6_OneOutcomePerTask ==
    pc \in {"summary", "done"} /\ urls_to_scrape # <<>> =>
        /\ Cardinality(DOMAIN results) = Len(urls_to_scrape)
        /\ \A k \in TaskIds : results[urls_to_scrape[k]] = task[k].status

(***************************************************************************)
(* Properties of the Store.                                                *)
(***************************************************************************)
OneRowPerUrl ==
    \A r1, r2 \in rows : r1.url = r2.url => r1 = r2

\* the row of a URL carries, column by column, the record last committed
RowsMatchLastWrite ==
    \A u \in AllUrls :
        \A t \in last_write[u] :
            \E r \in rows :
                /\ r.url = u
                /\ \A c \in UpsertColumns : r[c] = t[c]

NoRowDeleted ==
    \A r \in rows : \E r2 \in rows' : r2.url = r.url

\* C7: under every interleaving of the upserts of the tasks and of the other
\* writer the table holds at most one row per URL, the row of a URL equals in
\* every column of the upsert the record last committed for that URL, and no
\* step removes a URL's row.
C7_OneRecordPerUrlLastWriteWins ==
    /\ [](OneRowPerUrl /\ RowsMatchLastWrite)
    /\ [][NoRowDeleted]_vars

\* a row written by an earlier run was overwritten by a task and then by the
\* other writer
C7_Witness ==
    /\ \E r \in rows : r.url = UrlA /\ r.id < FirstFreeId
    /\ \E k \in TaskIds :
           urls_to_scrape[k] = UrlA /\ task[k].stage = "Succeeded"
    /\ \E t \in last_write[UrlA] : t.content = ContentForDb("ext")

\* the records an upsert may carry
UpsertRecords ==
    {DataTuple(ArticleData(u, p), ContentForDb(p)) :
         u \in AllUrls, p \in Pages \cup {"old", "ext"}}

\* C8: in every state of the table, the rows after upserting a record twice
\* are the rows after upserting it once.
C8_UpsertIdempotent ==
    \A t \in UpsertRecords :
        Upsert(Upsert(rows, id_seq, t), id_seq + 1, t) = Upsert(rows, id_seq, t)

\* two tasks have upserted the same record, one after the other
C8_Witness ==
    \E j, k \in TaskIds :
        /\ j # k
        /\ urls_to_scrape[j] = urls_to_scrape[k]
        /\ task[j].stage = "Succeeded"
        /\ task[k].stage = "Succeeded"
        /\ task[j].page = task[k].page


(***************************************************************************)
(* Properties of the fetcher.                                              *)
(***************************************************************************)
\* fetch_page has ended
FetchEnded == f_pc \notin {"scrape_article", "attempt"}

\* C9: scrape_article calls fetch_page once; fetch_page makes at most
\* max_retries attempts, and none after an attempt that did not end in a
\* RequestException; the i-th wait lasts delay * i, so the waits strictly
\* increase; every failed attempt but the last is followed by one wait and
\* the last by none; fetch_page returns None exactly when max_retries
\* attempts have all ended in a RequestException.
C9_BoundedRetriesIncreasingDelay ==
    /\ f_calls <= 1
    /\ Len(f_log) <= max_retries
    /\ \A i \in 1 .. (Len(f_log) - 1) : f_log[i] \in RequestExceptions
    /\ \A i \in 1 .. Len(f_slept) : f_slept[i] = delay * i
    /\ \A i \in 1 .. (Len(f_slept) - 1) : f_slept[i] < f_slept[i + 1]
    /\ f_pc = "attempt" => Len(f_slept) = Len(f_log)
    /\ FetchEnded => Len(f_slept) = Len(f_log) - 1
    /\ f_pc \in {"fetched_none", "return_none"} <=>
           /\ FetchEnded
           /\ Len(f_log) = max_retries
           /\ f_log[max_retries] \in RequestExceptions

\* every attempt failed: two waits, the second longer, and None is returned
C9_Witness ==
    /\ f_pc = "return_none"
    /\ Len(f_log) = max_retries
    /\ f_slept = <<delay, 2 * delay>>

(***************************************************************************)
(* Properties of the image loop.                                           *)
(***************************************************************************)
\* the answers the claim counts as a failed rewrite: a network error, a
\* non-success status, a body that is not a URL
FailedResponses == {RespNetworkError, RespHttpError, RespText, RespEmpty}

\* the images of the fragment before the loop, in document order
Images0 ==
    [i \in 1 .. Len(ImgPaths(body0)) |-> NodeAt(body0, ImgPaths(body0)[i])]

\* and after it
ImagesNow ==
    [i \in 1 .. Len(ImgPaths(body)) |-> NodeAt(body, ImgPaths(body)[i])]

\* the images of the built content_html, in document order
ImagesBuilt ==
    [i \in 1 .. Len(ImgPaths(content_html)) |->
         NodeAt(content_html, ImgPaths(content_html)[i])]

\* every image is where it was, with its alt; an image whose call failed
\* keeps its src and every other image that was sent carries the returned URL
ImagesKeptAndRewritten ==
    /\ Len(body) = Len(body0)
    /\ ImgPaths(body) = ImgPaths(body0)
    /\ \A i \in 1 .. Len(body) : body[i].tag = body0[i].tag
    /\ Len(content_html) = Len(body0)
    /\ ImagesBuilt = ImagesNow
    /\ Len(api_resp) = Len(Images0)
    /\ \A i \in 1 .. Len(Images0) :
           /\ ImagesNow[i].alt = Images0[i].alt
           /\ api_resp[i] \in FailedResponses \cup {NoCall} =>
                  ImagesNow[i].src = Images0[i].src
           /\ api_resp[i] \notin FailedResponses \cup {NoCall} =>
                  ImagesNow[i].src = CompressedUrl

\* C10 as stated: when the fragment has been built, the rewrite was attempted
\* exactly once per image, all images are in place and in order, exactly the
\* images whose call failed keep their src and every other image carries the
\* returned URL.
C10_OneAttemptPerImage ==
    img_pc = "done" =>
        /\ Len(api_calls) = Len(Images0)
        /\ \A i \in 1 .. Len(Images0) : api_resp[i] # NoCall
        /\ ImagesKeptAndRewritten

\* C10 as amended: when the fragment has been built, the rewrite was
\* attempted exactly once per image that has a non-empty src, in document
\* order, and not at all for an image without one; all images are in place and
\* in order, the images whose call failed and those without src keep their
\* src, and every other image carries the returned URL.
C10_OneAttemptPerImageWithSrc ==
    img_pc = "done" =>
        /\ api_calls = SelectSeq([i \in 1 .. Len(Images0) |-> Images0[i].src],
                                 LAMBDA src : src # <<>>)
        /\ \A i \in 1 .. Len(Images0) :
               api_resp[i] = NoCall <=> Images0[i].src = <<>>
        /\ ImagesKeptAndRewritten

\* three images, one nested in a paragraph: the call of exactly one failed
C10_Witness ==
    /\ img_pc = "done"
    /\ Len(Images0) = 3
    /\ \E i \in 1 .. Len(body0) : body0[i].tag = "p"
    /\ \E i \in 1 .. 3 :
           /\ api_resp[i] \in FailedResponses
           /\ ImagesNow[i].src = Images0[i].src
           /\ \A j \in (1 .. 3) \ {i} :
                  /\ api_resp[j] \in {RespUrl, RespUrlPadded}
                  /\ ImagesNow[j].src = CompressedUrl

(***************************************************************************)
(* Properties of the Normalizer.                                           *)
(***************************************************************************)
\* the top-level nodes as they will be written: a document object shows as
\* its children
RECURSIVE Visible(_)
Visible(tree) ==
    IF tree = <<>>
    THEN <<>>
    ELSE (IF Head(tree).tag = "[document]" THEN Head(tree).kids
          ELSE <<Head(tree)>>)
         \o Visible(Tail(tree))

\* node n carries the src or a text of the k-th child of the page's container
MarkedBy(n, k) ==
    \/ n.src = SrcOf(k)
    \/ n.text # <<>> /\ n.text[1] \in {TxtOf(k), CapOf(k), Cap2Of(k)}

StemsFrom(n, k) ==
    \/ MarkedBy(n, k)
    \/ \E q \in 1 .. Len(n.kids) : MarkedBy(n.kids[q], k)

Positions == 1 .. Len(article_container)

HasImage(k) ==
    /\ article_container[k].tag = "figure"
    /\ find_img(article_container[k]) # <<>>

Imageless(k) ==
    /\ article_container[k].tag = "figure"
    /\ find_img(article_container[k]) = <<>>

\* the first figure, in document order, among those that hold an image
FirstFigureWithImage(k) ==
    /\ HasImage(k)
    /\ \A j \in 1 .. (k - 1) : ~HasImage(j)

FiguresDone ==
    /\ nm_run = 1
    /\ \/ nm_pc = "figures" /\ fig_i = Len(figures)
       \/ nm_pc \in {"unwrap", "images"}

\* what the tree holds of the k-th child of the page's container
Remains(k) ==
    SelectSeq(Visible(content_copy), LAMBDA n : StemsFrom(n, k))

\* C11: once the figures are restructured, the first figure that holds an
\* image has become one bare image with src and alt only, and none of its
\* captions is left, also when image-less figures stand before it.
C11_CoverIsFirstFigureWithImage ==
    FiguresDone =>
        \A k \in Positions :
            FirstFigureWithImage(k) =>
                Remains(k) = <<Image({"src", "alt"}, SrcOf(k), AltOf(k))>>

\* the image of figure k followed by its captions, attributes removed
ImageThenCaptions(k) ==
    LET figure == article_container[k]
        fcs == find_all_figcaption(figure)
    IN  <<BareImage(find_img(figure)[1])>>
        \o [c \in 1 .. Len(fcs) |->
               Element("figcaption", {}, {}, fcs[c].text, fcs[c].kids)]

\* the child of the page's container a node of the tree comes from
OriginOf(n) ==
    CHOOSE k \in Positions : StemsFrom(n, k)

\* C12: every figure with an image that comes after the cover has become
\* its image followed by all its captions in their order, and the nodes of
\* the tree stand in the order of the page's blocks they come from.
C12_LaterFiguresKeepImageAndCaptions ==
    FiguresDone =>
        LET shown == Visible(content_copy)
        IN  /\ \A k \in Positions :
                   (HasImage(k) /\ ~FirstFigureWithImage(k)) =>
                       Remains(k) = ImageThenCaptions(k)
            /\ \A p, q \in 1 .. Len(shown) :
                   p < q => OriginOf(shown[p]) <= OriginOf(shown[q])

C12_Witness ==
    /\ FiguresDone
    /\ nm_pc = "images"
    /\ Len(article_container) = 3
    /\ article_container[1] = BlockOfKind("figure_img_caption", 1)
    /\ article_container[2] = BlockOfKind("figure_img_captions", 2)
    /\ article_container[3] = BlockOfKind("p", 3)
    /\ Len(content_copy) = 5

Returned(run) ==
    nm_run = run /\ nm_pc = "returned"

\* C13: nothing of a figure without an image, its captions included, is in
\* the normalized fragment, wherever the figure stood.
C13_ImagelessFigureRemoved ==
    /\ FiguresDone =>
           \A k \in Positions : Imageless(k) => Remains(k) = <<>>
    /\ Returned(1) =>
           \A k \in Positions :
               Imageless(k) =>
                   \A p \in 1 .. Len(clean_content) :
                       /\ ~StemsFrom(clean_content[p], k)
                       /\ clean_content[p].tag # "figure"

C13_Witness ==
    /\ Returned(1)
    /\ Len(article_container) = 3
    /\ HasImage(1)
    /\ Imageless(2)
    /\ HasImage(3)
    /\ \E p \in 1 .. Len(clean_content) : clean_content[p].tag = "figcaption"

\* the attributes a node of the normalized fragment may carry
AllowedAttrs(n) ==
    CASE n.tag = "img" -> {"src", "alt"}
      [] n.tag = "a" -> {"href"}
      [] n.tag = "iframe" -> {"src"}
      [] OTHER -> {}

\* C14: in the normalized fragment every node, at every depth, carries no
\* attribute but src/alt on an image, href on an anchor, src on an iframe.
C14_OnlyUrlAttributesRemain ==
    Returned(1) =>
        \A p \in 1 .. Len(clean_content) :
            LET n == clean_content[p]
            IN  /\ n.attrs \subseteq AllowedAttrs(n)
                /\ \A q \in 1 .. Len(n.kids) :
                       n.kids[q].attrs \subseteq AllowedAttrs(n.kids[q])

\* C15: the Normalizer run on its own output returns that output.
C15_NormalizerIdempotent ==
    Returned(2) => clean_content = first_output

(***************************************************************************)
(* Properties of the Renderer.                                             *)
(***************************************************************************)
NonBlank(lines) ==
    SelectSeq(lines, LAMBDA line : ~IsBlank(line))

\* a metadata directive line: the title tag or a meta tag
IsDirective(line) ==
    line.tag \in {"title", "meta"}

IsLdDirective(line) ==
    line.tag = "meta" /\ "property" \in line.attrs

\* the normalized fragment the renderings are made from
Fragment == article.content

LeadingImage ==
    Fragment # <<>> /\ Fragment[1].tag = "img"

\* title heading, then description paragraph, each when the record has it
HeaderBlock ==
    (IF article.title # "" THEN <<H1(article.title)>> ELSE <<>>)
    \o (IF article.description # ""
        THEN <<Paragraph(article.description)>> ELSE <<>>)

FileRendered == rd_pc \in {"db", "returned"}
Rendered == rd_pc = "returned"

CoverLine ==
    CHOOSE c \in 1 .. Len(full_html_for_file) :
        /\ full_html_for_file[c].tag = "img"
        /\ \A p \in 1 .. (c - 1) : full_html_for_file[p].tag # "img"

NameFields ==
    {f \in {"meta_description", "meta_keywords", "meta_tag"} :
        article[f] # ""}

\* the fields of the NewsArticle block that make a directive
LdFields ==
    {f \in {"ld_date_published", "ld_date_modified", "ld_author_name",
            "ld_publisher_name"} : article[f] # None}

DirectivesOf(lines) ==
    SelectSeq(lines, IsDirective)

WithoutDirectives(lines) ==
    StripLines(SelectSeq(lines, LAMBDA line : ~IsDirective(line)))

\* C17 as claimed: the file rendering holds the description, keywords and
\* tags directives and none made from the NewsArticle block; the store
\* rendering holds no description, keywords or tags directive and one for
\* every field of the NewsArticle block that is present; nothing else differs.
C17_LdDirectivesInStoreOnly ==
    Rendered =>
        /\ Cardinality({p \in 1 .. Len(full_html_for_file) :
                           /\ full_html_for_file[p].tag = "meta"
                           /\ "name" \in full_html_for_file[p].attrs})
               = Cardinality(NameFields)
        /\ \A p \in 1 .. Len(full_html_for_file) :
               ~IsLdDirective(full_html_for_file[p])
        /\ \A p \in 1 .. Len(content_db) :
               ~(content_db[p].tag = "meta" /\ "name" \in content_db[p].attrs)
        /\ Cardinality({p \in 1 .. Len(content_db) :
                           IsLdDirective(content_db[p])})
               = Cardinality(LdFields)

\* C17: the file rendering holds one directive for the title, for each of
\* description, keywords and tags and for each field of the NewsArticle
\* block that is present, the store rendering holds no directive at all,
\* and without its directive lines the file rendering is the store
\* rendering.
C17_DirectivesInFileOnly ==
    Rendered =>
        LET directives == DirectivesOf(full_html_for_file)
        IN  /\ Len(directives)
                   = (IF article.title # "" THEN 1 ELSE 0)
                     + Cardinality(NameFields) + Cardinality(LdFields)
            /\ \A f \in LdFields :
                   \E p \in 1 .. Len(directives) :
                       /\ IsLdDirective(directives[p])
                       /\ directives[p].text[2] = article[f]
            /\ \A f \in NameFields :
                   \E p \in 1 .. Len(directives) :
                       /\ "name" \in directives[p].attrs
                       /\ directives[p].text[2] = article[f]
            /\ DirectivesOf(content_db) = <<>>
            /\ WithoutDirectives(full_html_for_file) = content_db

C17_Witness ==
    /\ Rendered
    /\ LdFields # {}
    /\ NameFields # {}
    /\ article.title # ""
    /\ Len(Fragment) = 3
    /\ LeadingImage

\* a rendering without directive and blank lines
ContentLines(rendering) ==
    NonBlank(SelectSeq(rendering, LAMBDA line : ~IsDirective(line)))

\* C18 as claimed: a leading image of the fragment is the cover, emitted
\* once and taken out of the body; when the first block is no image, no
\* image is moved; the other lines keep their order in both renderings.
C18_OnlyLeadingImageIsCover ==
    Rendered =>
        \A rendering \in {full_html_for_file, content_db} :
            ContentLines(rendering)
                = IF LeadingImage
                  THEN <<Fragment[1]>> \o HeaderBlock \o Tail(Fragment)
                  ELSE HeaderBlock \o Fragment

\* the fragment with the node at a path taken out: a top-level line goes,
\* a block that held the node stays without it
Without(lines, path) ==
    IF Len(path) = 1
    THEN SubSeq(lines, 1, path[1] - 1)
         \o SubSeq(lines, path[1] + 1, Len(lines))
    ELSE [lines EXCEPT
             ![path[1]].kids = SubSeq(@, 1, path[2] - 1)
                               \o SubSeq(@, path[2] + 1, Len(@))]

\* the places of the image tags written with an attribute, in text order
ImageTags ==
    SelectSeq(ImgPaths(Fragment),
              LAMBDA path : NodeAt(Fragment, path).attrs # {})

\* C18: the first image tag of the fragment that is written with an
\* attribute, wherever it stands, is the cover: it is emitted once before
\* the header block and taken out of its place; a fragment without such
\* an image loses nothing; the other lines keep their order in both
\* renderings.
C18_FirstImageIsCover ==
    Rendered =>
        \A rendering \in {full_html_for_file, content_db} :
            ContentLines(rendering)
                = IF ImageTags # <<>>
                  THEN <<NodeAt(Fragment, ImageTags[1])>>
                       \o HeaderBlock
                       \o Without(Fragment, ImageTags[1])
                  ELSE HeaderBlock \o Fragment

C18_Witness ==
    /\ Rendered
    /\ Len(Fragment) = 3
    /\ Fragment[1].tag = "p"
    /\ Fragment[2].tag = "p"
    /\ Fragment[2].kids # <<>>
    /\ Fragment[3].tag = "img"
    /\ article.title # ""

(***************************************************************************)
(* Properties of the file sink.                                            *)
(***************************************************************************)
\* C19: every file written ends in .html and carries the name made from
\* the URL of its task, and the files written for two distinct URLs of one
\* run are two files.
C19_OneFilePerUrl ==
    \A w1 \in output_html :
        /\ EndsWith(w1.path, DotHtml)
        /\ w1.path = FileName(sink_urls[w1.task])
        /\ \A w2 \in output_html :
               sink_urls[w1.task] # sink_urls[w2.task] => w1.path # w2.path

(***************************************************************************)
(* Properties of the start of a run.                                       *)
(***************************************************************************)
\* init_db has returned and the table is not there: the connection or the
\* CREATE TABLE failed
StoreNotEstablished ==
    pc # "init_db" /\ ~table_exists

\* C20: when the initial connection or schema of the Store cannot be
\* established, the run stops before scheduling: nothing is submitted to
\* the pool and no URL leaves Pending.
C20_RunAbortsWhenStoreNotEstablished ==
    StoreNotEstablished =>
        /\ submitted = 0
        /\ \A k \in TaskIds : task[k].stage = "Pending"

(***************************************************************************)
(* Properties of the workers' resources.                                   *)
(***************************************************************************)
OpenConnections ==
    {k \in Workers : scraper[k].conn = "open"}

RunningWorkers ==
    {k \in Workers : scraper[k].stage \in {"Scraping", "Saving"}}

\* C21: a task that is Succeeded or Failed holds no open Store connection
\* and no open session, so there are never more open task connections
\* than running tasks.
C21_ResourcesReleasedOnEveryExit ==
    /\ \A k \in Workers :
           scraper[k].stage \in TerminalStages =>
               /\ scraper[k].conn # "open"
               /\ scraper[k].session # "open"
    /\ Cardinality(OpenConnections) <= Cardinality(RunningWorkers)

(***************************************************************************)
(* Properties of StructuredMeta.                                           *)
(***************************************************************************)
\* the block could not be read: one of the except clauses has logged
Malformed == ld_raised # None

\* C22: when extraction has returned, a block that could not be read has
\* populated none of the seven fields, and a field is populated only when
\* the block holds an item of the recognized type.
C22_BlockTakenWholeOrSkipped ==
    ld_pc = "returned" =>
        /\ Malformed => article_ld = NoStructuredMeta
        /\ article_ld # NoStructuredMeta =>
               /\ ld_json_script.kind \in {"object", "array"}
               /\ \E k \in 1 .. Len(ld_json_script.items) :
                      /\ ld_json_script.items[k].json = "object"
                      /\ ld_json_script.items[k].type = "NewsArticle"

(***************************************************************************)
(* Properties of the feed export.                                          *)
(***************************************************************************)
\* the items of the feed, in the order they stand in the file
FeedItems ==
    SelectSeq(xml_parts, LAMBDA part : part.kind = "item")

\* C23: the written feed holds one item per article in input order, the
\* i-th from 0 with identifier 40670 + i, so the identifiers increase
\* by one from item to item.
C23_ItemsInOrderWithSequentialIds ==
    feed_pc = "written" =>
        /\ Len(FeedItems) = Len(articles)
        /\ \A i \in 1 .. Len(articles) :
               /\ FeedItems[i].url = articles[i].url
               /\ FeedItems[i].post_id = 40670 + (i - 1)
        /\ \A i \in 1 .. (Len(FeedItems) - 1) :
               FeedItems[i + 1].post_id = FeedItems[i].post_id + 1

C23_Witness ==
    /\ feed_pc = "written"
    /\ Len(articles) = 3
    /\ articles[1].url = articles[3].url
    /\ articles[1].url # articles[2].url
    /\ FeedItems[3].post_id = 40672

\* C24: the body that remove_trstdly_references returns holds the text
\* trstdly.com nowhere, in no mix of upper and lower case.
C24_NoReferenceRemains ==
    sc_pc = "returned" =>
        \A i \in 1 .. Len(scrub_content) : ~ReferenceAt(scrub_content, i)

(***************************************************************************)
(* Properties of the end of a run.                                         *)
(***************************************************************************)
AllTasksTerminal ==
    \A k \in TaskIds : task[k].stage \in TerminalStages

\* C25: every run ends, and it ends with every task Succeeded or Failed;
\* a task that has left Pending is never put back; the counts are made
\* only when every task is terminal.
C25_RunEndsWithEveryTaskTerminal ==
    /\ <>[](pc = "done" /\ AllTasksTerminal)
    /\ [](pc \in {"summary", "done"} => AllTasksTerminal)
    /\ [][\A k \in TaskIds :
               task[k].stage # "Pending" => task'[k].stage # "Pending"]_vars

\* a list longer than the pool ceiling has gone through the pool
C25_Witness ==
    /\ pc = "done"
    /\ Len(urls_to_scrape) > MAX_WORKERS
    /\ AllTasksTerminal
    /\ \E k \in TaskIds : task[k].stage = "Failed"
    /\ \E k \in TaskIds : task[k].stage = "Succeeded"

(***************************************************************************)
(* Properties of the truncation.                                           *)
(***************************************************************************)
\* C26: every iteration of the sentence-removal loop leaves a shorter
\* text, and what is returned is the text itself when it is within the
\* limit and never longer than the limit.
C26_LoopMakesProgress ==
    [][/\ tr_iter' # tr_iter => Len(truncated_text') < Len(truncated_text)
       /\ tr_pc' = "returned" =>
              /\ Len(tr_result') <= TextLimit
              /\ Len(tr_text) <= TextLimit => tr_result' = tr_text]_vars

(***************************************************************************)
(* Properties of the serialization pass.                                   *)
(***************************************************************************)
\* C27: applied to its own result, _post_process_content gives that
\* result again.
C27_PostProcessIdempotent ==
    pp_pc = "twice" => pp_twice = pp_once

(***************************************************************************)
(* Properties of the summary and of reruns.                                *)
(***************************************************************************)
\* C28: when the run has ended, Succeeded + Failed is the number of tasks
\* submitted and Succeeded + Failed + Skipped is the length of the input
\* list.
C28_CountsAccountForEveryUrl ==
    pc = "done" =>
        /\ success_count + failed_count = Len(urls_to_scrape)
        /\ success_count + failed_count + skipped_count = Len(all_urls)

\* the URLs of the records the Store holds
StoredUrlStrings == {r.url : r \in rows}

\* C29: in a run that starts on the Store a previous run left and whose
\* prefetch query succeeded, no task is scheduled for a URL that is stored
\* (so that no task at all is scheduled when every input URL is stored).
C29_RerunSkipsStoredUrls ==
    (pc = "submit" /\ existing_urls_set = SelectTrimmedUrls(rows)) =>
        \A i \in DOMAIN urls_to_scrape :
            urls_to_scrape[i] \notin StoredUrlStrings

\* no task has run since the prefetch: the Store is as the query found it
StoreAsQueried ==
    \/ pc = "filter"
    \/ pc = "submit" /\ submitted = 0
    \/ pc = "done" /\ urls_to_scrape = <<>>

\* the query for the known URLs failed: the table is missing, or the
\* prefetched set is not what the table gives
PrefetchFailed ==
    /\ StoreAsQueried
    /\ \/ ~table_exists
       \/ existing_urls_set # SelectTrimmedUrls(rows)

\* C30: when the query for the known URLs fails, the prefetched set is
\* empty, and once the list is filtered Skipped is 0, every input URL is a
\* candidate, stored or not, and the run goes on to submit the tasks.
C30_PrefetchFailureSkipsNothing ==
    PrefetchFailed =>
        /\ existing_urls_set = {}
        /\ pc # "filter" =>
               /\ skipped_count = 0
               /\ urls_to_scrape = all_urls
               /\ Len(task) = Len(all_urls)
               /\ all_urls # <<>> => pc = "submit"

\* a stored URL is a candidate again after the query failed
C30_Witness ==
    /\ PrefetchFailed
    /\ pc = "submit"
    /\ \E i \in DOMAIN urls_to_scrape :
           urls_to_scrape[i] \in StoredUrlStrings

====
